---------------------------- MODULE SettingsFile ----------------------------
(***************************************************************************)
(* settings.json: Store.Save and Store.Load of internal/config/config.go.  *)
(*                                                                         *)
(* Save encodes the live settings, which nobody locks, writes them to a    *)
(* temporary file whose name is the same for every caller, and renames it. *)
(* Callers are goroutines; every system call is a step of its own, and the *)
(* file a caller has opened may be renamed or replaced under its hands.    *)
(***************************************************************************)
EXTENDS Naturals, Sequences

CONSTANTS
    Savers,     \* the goroutines that may call Save
    ProxyIds,   \* ids of pool entries
    Names,      \* ids of workers
    Failing,    \* the steps of Save whose system calls may fail in this instance
    DefaultName \* the id of the worker of a fresh installation

ASSUME SettingsAssumption ==
    /\ "none" \notin ProxyIds
    /\ DefaultName \in Names
    /\ Failing \subseteq {"open", "write", "rename"}

VARIABLES
    cfg,    \* the Settings all goroutines share: its workers and its pool
    file,   \* settings.json
    tmp,    \* settings.json.tmp
    save    \* per goroutine, where its call of Save is

settingsVars == <<cfg, file, tmp, save>>

None == "none"

\* An entry of the pool; None is the id of Go's zero item.
Entry == [id : ProxyIds \cup {None}, enabled : BOOLEAN, usable : BOOLEAN]
Worker == [id : Names, proxy : ProxyIds \cup {None}]
Settings == [workers : Seq(Worker), proxies : Seq(Entry)]

DefaultSettings == [workers |-> <<[id |-> DefaultName, proxy |-> None]>>, proxies |-> <<>>]
NoSettings == [workers |-> <<>>, proxies |-> <<>>]

(***************************************************************************)
(* A file is absent, empty (just truncated), torn (what json.Unmarshal     *)
(* refuses) or whole.  Of a torn file only that is known.                  *)
(***************************************************************************)
Kinds == {"absent", "empty", "torn", "whole"}
Blank(kind) == [kind |-> kind, data |-> NoSettings]
Whole(settings) == [kind |-> "whole", data |-> settings]
File == [kind : Kinds, data : Settings]

\* fd: whether the file a Save has opened is now the temporary file, has been
\* renamed to settings.json by another Save, or has been replaced there since.
SaveState == [pc : {"idle", "workers", "proxies", "open", "write", "rename", "ok", "failed"},
              data : Settings, fd : {"tmp", "file", "gone"}]

IdleSave == [pc |-> "idle", data |-> NoSettings, fd |-> "tmp"]

SettingsInit ==
    /\ cfg = DefaultSettings
    /\ file = Blank("absent") /\ tmp = Blank("absent")
    /\ save = [p \in Savers |-> IdleSave]

----------------------------------------------------------------------------
(* Save. *)

CallSave(p) == save' = [save EXCEPT ![p] = [IdleSave EXCEPT !.pc = "workers"]]

\* json.MarshalIndent reads the fields of the live settings one after the other.
EncodeWorkers(p) ==
    /\ save[p].pc = "workers"
    /\ save' = [save EXCEPT ![p].pc = "proxies", ![p].data.workers = cfg.workers]
    /\ UNCHANGED <<cfg, file, tmp>>

EncodeProxies(p) ==
    /\ save[p].pc = "proxies"
    /\ save' = [save EXCEPT ![p].pc = "open", ![p].data.proxies = cfg.proxies]
    /\ UNCHANGED <<cfg, file, tmp>>

\* Mutant: settings.json itself is opened, as os.WriteFile(s.path, ...) would.
OpenInPlace(p) ==
    /\ save[p].pc = "open"
    /\ file' = Blank("empty")
    /\ save' = [save EXCEPT ![p].pc = "write", ![p].fd = "file"]
    /\ UNCHANGED <<cfg, tmp>>

\* os.WriteFile creates or truncates the temporary file, whoever else uses it.
Open(p) ==
    /\ save[p].pc = "open"
    /\ tmp' = Blank("empty")
    /\ save' = [save EXCEPT ![p].pc = "write", ![p].fd = "tmp"]
    /\ UNCHANGED <<cfg, file>>

\* Writing from the start over what another Save wrote since this one opened the
\* file leaves the end of the longer one behind the shorter one.
WrittenOver(old, data) ==
    IF old.kind = "empty" \/ old = Whole(data) THEN {Whole(data)}
    ELSE {Whole(data), Blank("torn")}

WriteTo(fd, outcomes(_)) ==
    /\ IF fd = "tmp" THEN tmp' \in outcomes(tmp) ELSE UNCHANGED tmp
    /\ IF fd = "file" THEN file' \in outcomes(file) ELSE UNCHANGED file

Write(p) ==
    /\ save[p].pc = "write"
    /\ LET written(old) == WrittenOver(old, save[p].data)
       IN  WriteTo(save[p].fd, written)
    /\ save' = [save EXCEPT ![p].pc = "rename", ![p].data = NoSettings, ![p].fd = "tmp"]
    /\ UNCHANGED cfg

\* The path of the temporary file now names settings.json; so do open files.
Rename(p) ==
    /\ save[p].pc = "rename"
    /\ tmp.kind # "absent"
    /\ file' = tmp
    /\ tmp' = Blank("absent")
    /\ save' = [q \in Savers |->
                  CASE q = p -> [IdleSave EXCEPT !.pc = "ok"]
                    [] q # p /\ save[q].pc = "write" ->
                         [save[q] EXCEPT !.fd = IF @ = "tmp" THEN "file" ELSE "gone"]
                    [] OTHER -> save[q]]
    /\ UNCHANGED cfg

\* Any of the calls may fail; a write that fails has written something or nothing.
\* A rename fails when another Save has taken the file away.
FailSave(p) ==
    /\ save[p].pc \in Failing \/ (save[p].pc = "rename" /\ tmp.kind = "absent")
    /\ LET cut(old) == {old, Blank("torn")}
       IN  IF save[p].pc = "write" THEN WriteTo(save[p].fd, cut) ELSE UNCHANGED <<file, tmp>>
    /\ save' = [save EXCEPT ![p] = [IdleSave EXCEPT !.pc = "failed"]]
    /\ UNCHANGED cfg

SaveStep(p) ==
    \/ EncodeWorkers(p) \/ EncodeProxies(p)
    \/ Open(p) \/ Write(p) \/ Rename(p)
    \/ FailSave(p)

----------------------------------------------------------------------------
(* Load.  The environment's overrides concern other fields. *)

Loadable == file.kind \in {"absent", "whole"}
Loaded == IF file.kind = "whole" THEN file.data ELSE DefaultSettings

----------------------------------------------------------------------------
SettingsTypeOK ==
    /\ cfg \in Settings
    /\ file \in File /\ tmp \in File
    /\ save \in [Savers -> SaveState]

\* config.go:137: a Save is atomic.  Whoever saves at the same time and whenever
\* the process dies, settings.json can be loaded.
FileLoadable == Loadable

=============================================================================
