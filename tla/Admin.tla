------------------------------- MODULE Admin -------------------------------
(***************************************************************************)
(* The administrator's changes: adminapi.go and adminpool.go of            *)
(* internal/server over the proxy pool (internal/pool), the shared         *)
(* settings, settings.json and the rotator's list of workers.              *)
(*                                                                         *)
(* One administrator makes one call at a time.  Beside it run goroutines   *)
(* that probe the pool: those an import starts and the probe calls.  Both  *)
(* kinds change the pool, copy it into the settings and save them.  The    *)
(* settings have no lock; of the pool's operations some take its lock.     *)
(* Every access that can be interleaved with another is a step; slices are *)
(* filtered in place, so the tail of the old one is visible for a moment.  *)
(***************************************************************************)
EXTENDS SettingsFile, SequencesExt, FiniteSetsExt

CONSTANTS
    Editor,     \* the administrator's goroutine
    Probers,    \* the goroutines that probe
    HostOf,     \* the host:port of a pool entry
    NamesOf,    \* the worker ids tried for a host: host, host-2, host-3, ...
    MaxCalls,   \* bound of the administrator's calls
    Edited,     \* the worker ids the administrator edits by hand
    Batches     \* the lines an import may carry, as sequences of hosts

ASSUME AdminAssumption ==
    /\ MaxCalls \in Nat
    /\ Editor \notin Probers
    /\ Savers = Probers \cup {Editor}
    /\ Edited \subseteq Names
    /\ \A p \in ProxyIds : NamesOf[HostOf[p]] \in Seq(Names)

VARIABLES
    items,  \* pool.Manager.items
    order,  \* pool.Manager.order
    rot,    \* the worker list of the rotator, as the last Sync installed it
    call,   \* the local variables of every goroutine
    calls,  \* history: how many calls the administrator has made
    issued, \* history: the ids newID has returned; they are random and never recur
    loose,  \* history: the ids a worker was bound to while the pool did not have them
    acked,  \* history: the state the last call that returned 200 left behind
    failed, \* history: a call has returned 500 since the last one that synced
    up      \* whether the process runs

poolVars == <<items, order>>
history == <<calls, issued, loose, acked, failed>>
adminVars == <<settingsVars, poolVars, rot, call, history, up>>

ZeroEntry == [id |-> None, enabled |-> FALSE, usable |-> FALSE]
ItemAt(id) == IF id \in DOMAIN items THEN items[id] ELSE ZeroEntry
Put(id, entry) == [o \in DOMAIN items \cup {id} |-> IF o = id THEN entry ELSE items[o]]

\* The elements of a slice at the positions in S, in their order.
Nth(S, k) == CHOOSE i \in S : Cardinality({j \in S : j <= i}) = k
ElementsAt(s, S) == [k \in 1..Cardinality(S) |-> s[Nth(S, k)]]

\* What a loop keeps that filters a slice.
Keep(s, Test(_)) == ElementsAt(s, {i \in 1..Len(s) : Test(s[i])})

IdleCall == [pc |-> "idle", op |-> None, target |-> None, hosts |-> <<>>, ids |-> {},
             entry |-> ZeroEntry, list |-> <<>>, kept |-> 0]

Unknown == [known |-> FALSE, workers |-> <<>>, enabled |-> <<>>]

Idle(p) == call[p].pc = "idle"
At(p, pc) == up /\ call[p].pc = pc
Become(p, c) == call' = [call EXCEPT ![p] = c]
Goto(p, pc) == Become(p, [call[p] EXCEPT !.pc = pc])

\* SetUsable holds the pool's lock between its two accesses.
PoolLocked == \E p \in Probers : call[p].pc = "set usable"

\* Which handlers copy the pool into the settings, and which push the workers.
CopiesPool(op) == op # "workers"
ResyncsAddOnly(op) == op = "import"   \* mutant
Resyncs(op) == op \in {"import", "remove", "prune", "workers"}

BeginPersist(p, c) ==
    IF CopiesPool(c.op)
    THEN Become(p, [c EXCEPT !.pc = "snapshot"]) /\ UNCHANGED save
    ELSE Become(p, [c EXCEPT !.pc = "saving"]) /\ CallSave(p)

Begin(op, c) ==
    /\ At(Editor, "idle")
    /\ calls < MaxCalls /\ calls' = calls + 1
    /\ acked' = Unknown
    /\ Become(Editor, [c EXCEPT !.op = op])

----------------------------------------------------------------------------
(* Import: one pool entry and one worker per host that is not in the pool. *)

Exists(name) == \E i \in 1..Len(cfg.workers) : cfg.workers[i].id = name
FreshIds(host) == {id \in ProxyIds \ (issued \cup loose) : HostOf[id] = host}

\* The ids and names of the instance must suffice for the batch.
BeginImport(batch) ==
    /\ \A i \in 1..Len(batch) :
          /\ FreshIds(batch[i]) # {}
          /\ Cardinality({name \in Range(NamesOf[batch[i]]) : ~Exists(name)})
                 >= Cardinality(Range(batch))
    /\ Begin("import", [IdleCall EXCEPT !.pc = "import", !.hosts = batch])
    /\ UNCHANGED <<settingsVars, poolVars, rot, issued, loose, failed, up>>

Seen(host) == \E i \in 1..Len(order) : HostOf[order[i]] = host

ImportProxy ==
    /\ At(Editor, "import")
    /\ call[Editor].hosts # <<>>
    /\ LET host == Head(call[Editor].hosts)
           rest == [call[Editor] EXCEPT !.hosts = Tail(@)]
       IN  IF Seen(host)
           THEN Become(Editor, rest) /\ UNCHANGED <<poolVars, issued>>
           ELSE \E id \in FreshIds(host) :
                    /\ items' = Put(id, [id |-> id, enabled |-> TRUE, usable |-> TRUE])
                    /\ order' = Append(order, id)
                    /\ issued' = issued \cup {id}
                    /\ Become(Editor, [rest EXCEPT !.ids = @ \cup {id}])
    /\ UNCHANGED <<settingsVars, rot, calls, loose, acked, failed, up>>

\* The first name no worker has.
NewName(host, name) ==
    \E i \in 1..Len(NamesOf[host]) :
        /\ name = NamesOf[host][i] /\ ~Exists(name)
        /\ \A j \in 1..(i - 1) : Exists(NamesOf[host][j])

\* Workers are created in the order of the ids, after all entries were added.
BindWorker ==
    /\ At(Editor, "import")
    /\ call[Editor].hosts = <<>>
    /\ call[Editor].ids # {}
    /\ ~PoolLocked
    /\ LET id == order[SelectInSeq(order, LAMBDA o : o \in call[Editor].ids)]
       IN  /\ \E name \in Names :
                  /\ NewName(HostOf[id], name)
                  /\ cfg' = [cfg EXCEPT !.workers = Append(@, [id |-> name, proxy |-> id])]
           /\ Become(Editor, [call[Editor] EXCEPT !.ids = @ \ {id}])
    /\ UNCHANGED <<file, tmp, save, poolVars, rot, history, up>>

EndImport ==
    /\ At(Editor, "import")
    /\ call[Editor].hosts = <<>> /\ call[Editor].ids = {}
    /\ BeginPersist(Editor, call[Editor])
    /\ UNCHANGED <<cfg, file, tmp, poolVars, rot, history, up>>

----------------------------------------------------------------------------
(* Remove and prune: entries and the workers bound to them.                *)

\* Manager.Remove does not take the lock.
BeginRemove(id) ==
    /\ Begin("remove", [IdleCall EXCEPT !.pc = IF id \in DOMAIN items THEN "shift" ELSE "compact",
                                        !.ids = {id}])
    /\ items' = [o \in DOMAIN items \ {id} |-> items[o]]
    /\ UNCHANGED <<settingsVars, order, rot, issued, loose, failed, up>>

\* append(m.order[:i], m.order[i+1:]...) first moves the elements, then the
\* shorter slice is stored.
ShiftOrder ==
    /\ At(Editor, "shift")
    /\ LET i == SelectInSeq(order, LAMBDA o : o \in call[Editor].ids)
       IN  IF i = 0
           THEN Goto(Editor, "compact") /\ UNCHANGED order
           ELSE /\ order' = Append(RemoveAt(order, i), Last(order))
                /\ Goto(Editor, "shrink")
    /\ UNCHANGED <<settingsVars, items, rot, history, up>>

ShrinkOrder ==
    /\ At(Editor, "shrink")
    /\ order' = Front(order)
    /\ Goto(Editor, "compact")
    /\ UNCHANGED <<settingsVars, items, rot, history, up>>

Dead(id) == ~(ItemAt(id).enabled /\ ItemAt(id).usable)

\* Mutant: the order keeps the ids of the entries that were pruned.
PruneItemsOnly ==
    /\ ~PoolLocked
    /\ LET dead == {id \in Range(order) : Dead(id)}
       IN  /\ Begin("prune", [IdleCall EXCEPT !.pc = "compact", !.ids = dead])
           /\ items' = [id \in DOMAIN items \ dead |-> items[id]]
    /\ UNCHANGED <<settingsVars, order, rot, issued, loose, failed, up>>

\* Mutant: the map keeps the entries that were pruned.
PruneOrderOnly ==
    /\ ~PoolLocked
    /\ LET dead == {id \in Range(order) : Dead(id)}
       IN  /\ Begin("prune", [IdleCall EXCEPT !.pc = "compact", !.ids = dead])
           /\ order' = Keep(order, LAMBDA id : id \notin dead)
    /\ UNCHANGED <<settingsVars, items, rot, issued, loose, failed, up>>

\* Manager.Prune holds the lock and stores a new slice.
BeginPrune ==
    /\ ~PoolLocked
    /\ LET dead == {id \in Range(order) : Dead(id)}
       IN  /\ Begin("prune", [IdleCall EXCEPT !.pc = "compact", !.ids = dead])
           /\ items' = [id \in DOMAIN items \ dead |-> items[id]]
           /\ order' = Keep(order, LAMBDA id : id \notin dead)
    /\ UNCHANGED <<settingsVars, rot, issued, loose, failed, up>>

\* Mutant: removing an entry leaves the workers bound to it.
NamedOnly(w, c) == c.op = "workers" /\ w.id = c.target

\* Whether the call takes this worker out: the bound ones, or the one named.
Unwanted(w, c) ==
    IF c.op = "workers" THEN w.id = c.target ELSE w.proxy # None /\ w.proxy \in c.ids

\* deleteWorkersByProxyIDs and the delete action filter the slice in place.
CompactWorkers ==
    /\ At(Editor, "compact")
    /\ LET kept == Keep(cfg.workers, LAMBDA w : ~Unwanted(w, call[Editor]))
       IN  /\ cfg' = [cfg EXCEPT !.workers = kept \o SubSeq(@, Len(kept) + 1, Len(@))]
           /\ Become(Editor, [call[Editor] EXCEPT !.pc = "cut", !.kept = Len(kept)])
    /\ UNCHANGED <<file, tmp, save, poolVars, rot, history, up>>

CutWorkers ==
    /\ At(Editor, "cut")
    /\ cfg' = [cfg EXCEPT !.workers = SubSeq(@, 1, call[Editor].kept)]
    /\ BeginPersist(Editor, [call[Editor] EXCEPT !.kept = 0, !.ids = {}, !.target = None])
    /\ UNCHANGED <<file, tmp, poolVars, rot, history, up>>

----------------------------------------------------------------------------
(* Toggle: Get, then SetEnabled, which reads and writes without the lock;  *)
(* for an id the pool does not have the call only saves.                   *)

BeginToggle(id) ==
    /\ ~PoolLocked
    /\ Begin("toggle",
             IF id \in DOMAIN items
             THEN [IdleCall EXCEPT !.pc = "read", !.target = id,
                                   !.entry = [ZeroEntry EXCEPT !.enabled = ~items[id].enabled]]
             ELSE [IdleCall EXCEPT !.pc = "snapshot"])
    /\ UNCHANGED <<settingsVars, poolVars, rot, issued, loose, failed, up>>

ReadItem ==
    /\ At(Editor, "read")
    /\ LET c == call[Editor]
       IN  Become(Editor, [c EXCEPT !.pc = "write",
                                    !.entry = [items[c.target] EXCEPT !.enabled = c.entry.enabled]])
    /\ UNCHANGED <<settingsVars, poolVars, rot, history, up>>

WriteItem ==
    /\ At(Editor, "write")
    /\ items' = Put(call[Editor].target, call[Editor].entry)
    /\ BeginPersist(Editor, [call[Editor] EXCEPT !.target = None, !.entry = ZeroEntry])
    /\ UNCHANGED <<cfg, file, tmp, order, rot, history, up>>

----------------------------------------------------------------------------
(* Workers: delete one, bind one to another proxy, or add one.             *)

BeginDelete(name) ==
    /\ Begin("workers", [IdleCall EXCEPT !.pc = "compact", !.target = name])
    /\ UNCHANGED <<settingsVars, poolVars, rot, issued, loose, failed, up>>

\* The id of the proxy is stored as the request gives it: nothing checks that
\* the pool has it, or has it still.
EditWorker(name, proxy) ==
    /\ LET i == SelectInSeq(cfg.workers, LAMBDA w : w.id = name)
       IN  cfg' = [cfg EXCEPT !.workers =
                      IF i = 0 THEN Append(@, [id |-> name, proxy |-> proxy])
                      ELSE [@ EXCEPT ![i].proxy = proxy]]
    /\ Begin("workers", [IdleCall EXCEPT !.pc = "saving"])
    /\ CallSave(Editor)
    /\ loose' = loose \cup ({proxy} \ (DOMAIN items \cup {None}))
    /\ UNCHANGED <<file, tmp, poolVars, rot, issued, failed, up>>

----------------------------------------------------------------------------
(* ProbeAll.  The entries to probe are read without the lock.              *)

BeginProbe(p) ==
    /\ At(p, "idle")
    /\ Become(p, [IdleCall EXCEPT !.pc = "probe", !.op = "probe",
                                  !.ids = {id \in Range(order) : ItemAt(id).enabled}])
    /\ UNCHANGED <<settingsVars, poolVars, rot, history, up>>

\* One probe has an answer; SetUsable takes the lock and reads the entry.
ReadUsable(p, id, usable) ==
    /\ At(p, "probe")
    /\ id \in call[p].ids
    /\ ~PoolLocked
    /\ IF id \in DOMAIN items
       THEN Become(p, [call[p] EXCEPT !.pc = "set usable", !.ids = @ \ {id}, !.target = id,
                                      !.entry = [items[id] EXCEPT !.usable = usable]])
       ELSE Become(p, [call[p] EXCEPT !.ids = @ \ {id}])
    /\ UNCHANGED <<settingsVars, poolVars, rot, history, up>>

WriteUsable(p) ==
    /\ At(p, "set usable")
    /\ items' = Put(call[p].target, call[p].entry)
    /\ Become(p, [call[p] EXCEPT !.pc = "probe", !.target = None, !.entry = ZeroEntry])
    /\ UNCHANGED <<settingsVars, order, rot, history, up>>

EndProbe(p) ==
    /\ At(p, "probe")
    /\ call[p].ids = {}
    /\ BeginPersist(p, call[p])
    /\ UNCHANGED <<cfg, file, tmp, poolVars, rot, history, up>>

----------------------------------------------------------------------------
(* persistPool, persistConfig and the end of a call.                       *)

\* All holds the lock for reading.
Snapshot(p) ==
    /\ At(p, "snapshot")
    /\ ~PoolLocked
    /\ Become(p, [call[p] EXCEPT !.pc = "assign",
                                 !.list = [i \in 1..Len(order) |-> ItemAt(order[i])]])
    /\ UNCHANGED <<settingsVars, poolVars, rot, history, up>>

Assign(p) ==
    /\ At(p, "assign")
    /\ cfg' = [cfg EXCEPT !.proxies = call[p].list]
    /\ CallSave(p)
    /\ Become(p, [call[p] EXCEPT !.pc = "saving", !.list = <<>>])
    /\ UNCHANGED <<file, tmp, poolVars, rot, history, up>>

InSave(p) ==
    /\ up
    /\ SaveStep(p)
    /\ UNCHANGED <<poolVars, rot, call, history, up>>

\* What a call that returns 200 leaves: the workers, and which entries are enabled.
Outcome == [known |-> TRUE, workers |-> cfg.workers,
            enabled |-> [id \in Range(order) |-> ItemAt(id).enabled]]

Return(p, ok) ==
    /\ Become(p, IdleCall)
    /\ save' = [save EXCEPT ![p] = IdleSave]
    /\ acked' = IF p = Editor /\ ok THEN Outcome ELSE acked
    /\ UNCHANGED <<cfg, file, tmp, poolVars, calls, issued, loose, up>>

Resync(p) ==
    /\ At(p, "saving")
    /\ save[p].pc = "ok"
    /\ Resyncs(call[p].op)
    /\ rot' = cfg.workers
    /\ failed' = FALSE
    /\ Return(p, TRUE)

ReturnOk(p) ==
    /\ At(p, "saving")
    /\ save[p].pc = "ok"
    /\ ~Resyncs(call[p].op)
    /\ Return(p, TRUE)
    /\ UNCHANGED <<rot, failed>>

\* Mutant: the error of a save is dropped.
ReturnOkAnyway(p) ==
    /\ At(p, "saving")
    /\ save[p].pc = "failed"
    /\ Return(p, TRUE)
    /\ UNCHANGED <<rot, failed>>

\* Nothing is undone: memory keeps the change and the rotator the old list.
ReturnError(p) ==
    /\ At(p, "saving")
    /\ save[p].pc = "failed"
    /\ failed' = (failed \/ p = Editor)
    /\ Return(p, FALSE)
    /\ UNCHANGED rot

----------------------------------------------------------------------------
(* The process dies and is started again.                                  *)

Crash ==
    /\ up /\ up' = FALSE
    /\ call' = [p \in Savers |-> IdleCall]
    /\ save' = [p \in Savers |-> IdleSave]
    /\ items' = <<>> /\ order' = <<>> /\ rot' = <<>>
    /\ cfg' = NoSettings
    /\ failed' = FALSE
    /\ UNCHANGED <<file, tmp, calls, issued, loose, acked>>

\* The entries Restore takes: those with an id, the first of each.
Restorable(list) ==
    {i \in 1..Len(list) : list[i].id # None /\ \A j \in 1..(i - 1) : list[j].id # list[i].id}

\* The settings are loaded, the pool restored from them under the old ids, and
\* the rotator is given the workers.  Settings that cannot be loaded are fatal.
Boot ==
    /\ ~up /\ Loadable
    /\ up' = TRUE
    /\ cfg' = Loaded
    /\ rot' = Loaded.workers
    /\ LET list == Loaded.proxies
           taken == ElementsAt(list, Restorable(list))
       IN  /\ order' = [k \in 1..Len(taken) |-> taken[k].id]
           /\ items' = [id \in Range(order') |-> list[CHOOSE i \in Restorable(list) : list[i].id = id]]
    /\ UNCHANGED <<file, tmp, save, call, history>>

----------------------------------------------------------------------------
AdminInit ==
    /\ SettingsInit
    /\ items = <<>> /\ order = <<>>
    /\ rot = cfg.workers
    /\ call = [p \in Savers |-> IdleCall]
    /\ calls = 0 /\ issued = {} /\ loose = {} /\ acked = Unknown /\ failed = FALSE
    /\ up = TRUE

EditorStep ==
    \/ ImportProxy \/ BindWorker \/ EndImport
    \/ ShiftOrder \/ ShrinkOrder
    \/ CompactWorkers \/ CutWorkers
    \/ ReadItem \/ WriteItem

NewEdit ==
    \/ \E batch \in Batches : BeginImport(batch)
    \/ \E id \in ProxyIds : BeginRemove(id) \/ BeginToggle(id)
    \/ BeginPrune
    \/ \E name \in Edited : BeginDelete(name)
    \/ \E name \in Edited, proxy \in ProxyIds \cup {None} : EditWorker(name, proxy)

ProberStep(p) ==
    \/ \E id \in ProxyIds, usable \in BOOLEAN : ReadUsable(p, id, usable)
    \/ WriteUsable(p)
    \/ EndProbe(p)

\* What both kinds of goroutines end with.
PersistStep(p) ==
    \/ Snapshot(p) \/ Assign(p) \/ InSave(p)
    \/ Resync(p) \/ ReturnOk(p) \/ ReturnError(p)

AdminNext ==
    \/ NewEdit \/ EditorStep
    \/ \E p \in Probers : BeginProbe(p) \/ ProberStep(p)
    \/ \E p \in Savers : PersistStep(p)
    \/ Crash \/ Boot

AdminSpec == AdminInit /\ [][AdminNext]_adminVars

(***************************************************************************)
(* What the code relies on without ensuring it: no goroutine records or    *)
(* saves results of a probe while a call of the administrator, or another  *)
(* such goroutine, is under way.  The probing itself overlaps with both.   *)
(***************************************************************************)
Busy == {p \in Savers : call[p].pc \notin {"idle", "probe"}}
Serial == \A p, q \in Busy : p = q

SerialNext == AdminNext /\ Serial'

SerialSpec == AdminInit /\ [][SerialNext]_adminVars

----------------------------------------------------------------------------
(* Properties. *)

\* The types.  Whatever overlaps, and also after a restart from a file that was
\* saved in the middle of a removal, the pool's order lists entries that exist, and
\* none twice; only inside a removal it does not.
AdminTypeOK ==
    /\ SettingsTypeOK
    /\ order \in Seq(ProxyIds) /\ DOMAIN items \subseteq ProxyIds
    /\ \A id \in DOMAIN items : items[id] \in Entry /\ items[id].id = id
    /\ call[Editor].pc \notin {"shift", "shrink"} =>
          Range(order) \subseteq DOMAIN items /\ IsInjective(order)
    /\ rot \in Seq(Worker)
    /\ \A p \in Savers : save[p].pc # "idle" <=> call[p].pc = "saving"
    /\ up \in BOOLEAN /\ failed \in BOOLEAN /\ issued \cup loose \subseteq ProxyIds

\* Every entry in the pool's map is one that its order lists, outside a removal: no
\* entry is left that no page shows and no call saves.
NoHiddenEntry ==
    call[Editor].pc \notin {"shift", "shrink"} => DOMAIN items \subseteq Range(order)

AtRest == up /\ Idle(Editor)

\* The handlers mutate settings, pool, file and rotator one after the other and
\* any save may fail.  Nevertheless, what a call that returned 200 left behind is
\* there as long as no other call is made: in memory, and after a crash as well.
\* Results of probes that are saved after it, or fail to be, do not touch it; it
\* takes SerialSpec, for a probe that is saving while the call edits may rename
\* its older copy of the settings over the call's.
AckedEditsSurvive == AtRest /\ acked.known => Outcome = acked

\* Between calls the rotator has the configured workers, unless a call failed
\* since the last resync; a crash, too, ends with the two in agreement.
RotatorFollows == AtRest /\ ~failed => rot = cfg.workers

\* An entry that the relay finds in the settings and the pool page shows.
Resolves(id) ==
    /\ id \in Range(order)
    /\ \E j \in 1..Len(cfg.proxies) : cfg.proxies[j].id = id

\* Between calls, and after a restart from whatever was saved, each worker the
\* rotator hands out is bound to an entry that resolves, unless a call of the
\* administrator bound one to an id that the pool did not have.
BindingsResolve ==
    AtRest /\ ~failed =>
        \A i \in 1..Len(rot) : rot[i].proxy \notin loose \cup {None} => Resolves(rot[i].proxy)


=============================================================================
