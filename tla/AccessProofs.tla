---------------------------- MODULE AccessProofs ----------------------------
(***************************************************************************)
(* Theorems about Access: what a call promised holds through failing       *)
(* saves, crashes and restarts, and the gate follows the settings.         *)
(***************************************************************************)
EXTENDS Access, TLAPS

\* The types of what the promises are about, and what a missing file stands for.
SettingTypes ==
    /\ cfg \in Settings /\ file \in File
    /\ file.kind = "absent" => file.data = Default
    /\ callKeys \subseteq CallKeys /\ adminHash \in Hashes
    /\ promised \in Promises /\ unsynced \in BOOLEAN
    /\ up \in BOOLEAN /\ env \in Environments
    /\ call \in Calls /\ (~up => call = Idle)

\* settings say what an edit asks for; a promise allows it.
Applied(settings, edit) ==
    CASE edit.kind = "settings" ->
            /\ settings.require = edit.require
            /\ edit.password # "keep" => settings.hash = edit.password
      [] edit.kind \in {"upsert", "delete"} ->
            Decides(settings, edit) => Admission(settings.keys, edit.key) = edit.enabled
      [] edit.kind = "blank" -> TRUE

Allows(promise, edit) ==
    CASE edit.kind = "settings" ->
            /\ edit.require \in promise.require
            /\ edit.password # "keep" => edit.password \in promise.hash
      [] edit.kind \in {"upsert", "delete"} -> edit.enabled \in promise.keys[edit.key]
      [] edit.kind = "blank" -> TRUE

LiveFits(admitted, promise) ==
    \A k \in CallKeys : (IF k \in admitted THEN "on" ELSE "off") \in promise.keys[k]

(***************************************************************************)
(* The inductive invariant.  A call under way is already promised as       *)
(* possible; when it is saved the settings say what it asks for, and when  *)
(* it is acknowledged the file holds the same.                             *)
(***************************************************************************)
CallInv ==
    /\ call # Idle => Allows(promised, call.edit)
    /\ call.pc \in {"save", "sync"} => Applied(cfg, call.edit)
    /\ call.pc = "sync" => file.data = cfg

KeptInv ==
    /\ Fits(file.data, promised)
    /\ adminHash = cfg.hash
    /\ up => Fits(cfg, promised) /\ LiveFits(callKeys, promised)

\* Between its edit and its synchronisation a call of the keys is ahead of the gate.
FollowInv ==
    up /\ ~unsynced /\ (call = Idle \/ call.edit.kind = "settings") => callKeys = Allowed(cfg.keys)

AccessInv == SettingTypes /\ CallInv /\ KeptInv /\ FollowInv

----------------------------------------------------------------------------
(* Facts about settings and promises. *)

\* Default settings are settings without an entry, which admit nobody.
LEMMA DefaultFacts ==
    /\ Default \in Settings /\ FirstOnly(Default)
    /\ Allowed(Default.keys) = {}
BY SMT DEF Default, Settings, Flags, Hashes, Allowed, FirstOnly

\* An edit is one of the settings or one of the keys, and one under way is in call.
LEMMA EditKinds ==
    /\ \A edit \in SettingsEdits : edit.kind = "settings" /\ edit.require \in Flags
                                   /\ edit.password \in Passwords \cup {"keep"}
    /\ \A edit \in KeyEdits : edit.kind \in {"upsert", "delete"} /\ edit.key \in CallKeys
                              /\ edit.enabled \in Flags
                              /\ (edit.kind = "delete" => edit.enabled = "off")
    /\ Blank.kind = "blank"
BY SMT DEF SettingsEdits, KeyEdits, Flags, Blank

LEMMA CallKinds ==
    ASSUME call \in Calls
    PROVE  /\ call.pc \in {"idle", "edit", "save", "sync"}
           /\ call.pc = "idle" <=> call = Idle
           /\ call # Idle => call.edit \in Edits
           /\ call = Idle => call.edit.kind = "none"
BY SMT DEF Calls, Edits, Idle, NoEdit

LEMMA MaybeGrows ==
    ASSUME NEW promise \in Promises, NEW edit \in Edits
    PROVE  /\ Maybe(promise, edit) \in Promises
           /\ \A k \in CallKeys : promise.keys[k] \subseteq Maybe(promise, edit).keys[k]
           /\ promise.hash \subseteq Maybe(promise, edit).hash
           /\ promise.require \subseteq Maybe(promise, edit).require
           /\ Allows(Maybe(promise, edit), edit)
<1>1. CASE edit \in SettingsEdits
  <2> DEFINE hash == promise.hash \cup (IF edit.password = "keep" THEN {} ELSE {edit.password})
             next == [keys |-> promise.keys, hash |-> hash, require |-> promise.require \cup {edit.require}]
  <2>1. edit.kind = "settings" /\ edit.require \in Flags /\ edit.password \in Passwords \cup {"keep"}
    BY <1>1, EditKinds
  <2>2. Maybe(promise, edit) = next
    BY <2>1 DEF Maybe
  <2>3. hash \subseteq Hashes /\ promise.hash \subseteq hash
        /\ (edit.password # "keep" => edit.password \in hash)
    BY <2>1, SMT DEF Promises, Hashes
  <2>4. next.keys = promise.keys /\ next.hash = hash /\ next.require = promise.require \cup {edit.require}
    OBVIOUS
  <2> HIDE DEF hash
  <2>5. next \in Promises
    BY <2>1, <2>3, SMT DEF Promises
  <2>6. Allows(next, edit)
    BY <2>1, <2>3, <2>4 DEF Allows
  <2> HIDE DEF next
  <2>7. QED BY <2>2, <2>3, <2>4, <2>5, <2>6
<1>2. CASE edit \in KeyEdits
  <2> DEFINE keys == [promise.keys EXCEPT ![edit.key] = @ \cup {edit.enabled}]
             next == [keys |-> keys, hash |-> promise.hash, require |-> promise.require]
  <2>1. edit.kind \in {"upsert", "delete"} /\ edit.key \in CallKeys /\ edit.enabled \in Flags
    BY <1>2, EditKinds, SMT
  <2>2. Maybe(promise, edit) = next
    <3>1. Maybe(promise, edit) = [promise EXCEPT !.keys = keys]
      BY <2>1 DEF Maybe
    <3> HIDE DEF keys
    <3>2. QED BY <3>1, SMT DEF Promises
  <2>3. /\ keys \in [CallKeys -> SUBSET Flags]
        /\ \A k \in CallKeys : promise.keys[k] \subseteq keys[k]
        /\ edit.enabled \in keys[edit.key]
    BY <2>1, SMT DEF Promises
  <2>4. next.keys = keys /\ next.hash = promise.hash /\ next.require = promise.require
    OBVIOUS
  <2> HIDE DEF keys
  <2>5. next \in Promises
    BY <2>3, SMT DEF Promises
  <2>6. Allows(next, edit)
    BY <2>1, <2>3, <2>4 DEF Allows
  <2> HIDE DEF next
  <2>7. QED BY <2>2, <2>3, <2>4, <2>5, <2>6
<1>3. CASE edit = Blank
  BY <1>3, EditKinds DEF Maybe, Allows
<1>4. QED BY <1>1, <1>2, <1>3 DEF Edits

LEMMA SurelyFits ==
    ASSUME NEW promise \in Promises, NEW edit \in Edits,
           NEW settings \in Settings, Fits(settings, promise), Applied(settings, edit),
           settings = cfg
    PROVE  Fits(settings, Surely(promise, edit)) /\ Surely(promise, edit) \in Promises
<1>1. CASE edit \in SettingsEdits
  <2> DEFINE hash == IF edit.password = "keep" THEN promise.hash ELSE {edit.password}
             next == [keys |-> promise.keys, hash |-> hash, require |-> {edit.require}]
  <2>1. edit.kind = "settings" /\ edit.require \in Flags /\ edit.password \in Passwords \cup {"keep"}
    BY <1>1, EditKinds
  <2>2. Surely(promise, edit) = next
    BY <2>1 DEF Surely
  <2>3. hash \subseteq Hashes
    BY <2>1, SMT DEF Promises, Hashes
  <2>4. settings.hash \in hash
    BY <2>1 DEF Fits, Applied
  <2>5. next.keys = promise.keys /\ next.hash = hash /\ next.require = {edit.require}
    OBVIOUS
  <2> HIDE DEF hash
  <2>6. next \in Promises
    BY <2>1, <2>3, SMT DEF Promises
  <2> HIDE DEF next
  <2>7. Fits(settings, next)
    BY <2>1, <2>4, <2>5 DEF Fits, Applied
  <2>8. QED BY <2>2, <2>6, <2>7
<1>2. CASE edit \in KeyEdits
  <2> DEFINE flags == IF Decides(cfg, edit) THEN {edit.enabled} ELSE promise.keys[edit.key]
             keys == [promise.keys EXCEPT ![edit.key] = flags]
             next == [keys |-> keys, hash |-> promise.hash, require |-> promise.require]
  <2>1. edit.kind \in {"upsert", "delete"} /\ edit.key \in CallKeys /\ edit.enabled \in Flags
    BY <1>2, EditKinds, SMT
  <2>2. Admission(settings.keys, edit.key) \in flags
    BY <2>1 DEF Fits, Applied
  <2>3. flags \subseteq Flags
    BY <2>1, SMT DEF Promises
  <2>4. Surely(promise, edit) = next
    <3>1. Surely(promise, edit) = [promise EXCEPT !.keys = keys]
      BY <2>1 DEF Surely
    <3> HIDE DEF keys
    <3>2. QED BY <3>1, SMT DEF Promises
  <2> HIDE DEF flags
  <2>5. /\ keys \in [CallKeys -> SUBSET Flags]
        /\ \A k \in CallKeys : keys[k] = IF k = edit.key THEN flags ELSE promise.keys[k]
    BY <2>1, <2>3, SMT DEF Promises
  <2>6. next.keys = keys /\ next.hash = promise.hash /\ next.require = promise.require
    OBVIOUS
  <2> HIDE DEF keys
  <2>7. next \in Promises
    BY <2>5, SMT DEF Promises
  <2> HIDE DEF next
  <2>8. Fits(settings, next)
    BY <2>1, <2>2, <2>5, <2>6 DEF Fits
  <2>9. QED BY <2>4, <2>7, <2>8
<1>3. CASE edit = Blank
  BY <1>3, EditKinds DEF Surely
<1>4. QED BY <1>1, <1>2, <1>3 DEF Edits

LEMMA FitsGrows ==
    ASSUME NEW settings, NEW p, NEW q, Fits(settings, p),
           \A k \in CallKeys : p.keys[k] \subseteq q.keys[k],
           p.hash \subseteq q.hash, p.require \subseteq q.require
    PROVE  Fits(settings, q)
BY DEF Fits

\* The flags of a key after an edit: they admit the key as the edit says where it
\* decides, and what follows the first stays enabled.
LEMMA EditedFlags ==
    ASSUME NEW flags \in Seq(Flags), NEW edit \in KeyEdits
    PROVE  LET next == Edited(flags, edit)
           IN  /\ next \in Seq(Flags)
               /\ edit.kind = "delete" \/ edit.enabled = "on" \/ Len(next) <= 1 =>
                     ((\E i \in 1..Len(next) : next[i] = "on") <=> edit.enabled = "on")
               /\ (\E i \in 1..Len(next) : next[i] = "on") =>
                     edit.enabled = "on" \/ \E i \in 1..Len(flags) : flags[i] = "on"
               /\ (\A i \in 2..Len(flags) : flags[i] = "on") => \A i \in 2..Len(next) : next[i] = "on"
<1>1. CASE edit.kind = "delete"
  BY <1>1, EditKinds, SMT DEF Edited, Flags
<1>2. CASE edit.kind = "upsert" /\ flags = <<>>
  BY <1>2, EditKinds, SMT DEF Edited, Flags
<1>3. CASE edit.kind = "upsert" /\ flags # <<>>
  BY <1>3, EditKinds, SMT DEF Edited, Flags
<1>4. QED BY <1>1, <1>2, <1>3, EditKinds

\* The same, of all settings.
LEMMA EditedSettings ==
    ASSUME NEW settings \in Settings, NEW edit \in KeyEdits
    PROVE  LET next == WithKey(settings, edit)
           IN  /\ next \in Settings /\ next.hash = settings.hash
               /\ Applied(next, edit)
               /\ FirstOnly(settings) => FirstOnly(next)
               /\ \A promise \in Promises :
                     Fits(settings, promise) /\ Allows(promise, edit) => Fits(next, promise)
<1> DEFINE flags == Edited(settings.keys[edit.key], edit)
           keys == [settings.keys EXCEPT ![edit.key] = flags]
           next == [keys |-> keys, hash |-> settings.hash, require |-> settings.require]
<1>1. edit.kind \in {"upsert", "delete"} /\ edit.key \in CallKeys /\ edit.enabled \in Flags
  BY EditKinds, SMT
<1>2. settings.keys \in [CallKeys -> Seq(Flags)]
  BY SMT DEF Settings
<1>3. flags \in Seq(Flags)
  BY <1>1, <1>2, EditedFlags
<1>4. /\ edit.kind = "delete" \/ edit.enabled = "on" \/ Len(flags) <= 1 =>
            ((\E i \in 1..Len(flags) : flags[i] = "on") <=> edit.enabled = "on")
      /\ (\E i \in 1..Len(flags) : flags[i] = "on") =>
            edit.enabled = "on" \/ edit.key \in Allowed(settings.keys)
      /\ FirstOnly(settings) => \A i \in 2..Len(flags) : flags[i] = "on"
  BY <1>1, <1>2, EditedFlags DEF FirstOnly, Allowed
<1> HIDE DEF flags
<1>5. /\ keys \in [CallKeys -> Seq(Flags)]
      /\ \A k \in CallKeys : keys[k] = IF k = edit.key THEN flags ELSE settings.keys[k]
  BY <1>1, <1>2, <1>3, SMT
<1>6. next.keys = keys /\ next.hash = settings.hash /\ next.require = settings.require
  OBVIOUS
<1>7. WithKey(settings, edit) = next
  BY DEF WithKey, keys, flags
<1> HIDE DEF keys
<1>8. next \in Settings
  BY <1>5, <1>2, SMT DEF Settings
<1> HIDE DEF next
<1>9. FirstOnly(settings) => FirstOnly(next)
  BY <1>4, <1>5, <1>6 DEF FirstOnly
<1>10. /\ Decides(next, edit) => Admission(next.keys, edit.key) = edit.enabled
       /\ Admission(next.keys, edit.key) \in {edit.enabled, Admission(settings.keys, edit.key)}
  <2>1. edit.key \in Allowed(next.keys) <=> \E i \in 1..Len(flags) : flags[i] = "on"
    BY <1>1, <1>5, <1>6 DEF Allowed
  <2>2. Decides(next, edit) <=> edit.kind = "delete" \/ edit.enabled = "on" \/ Len(flags) <= 1
    BY <1>1, <1>5, <1>6 DEF Decides
  <2>3. QED BY <2>1, <2>2, <1>4, <1>1 DEF Admission, Flags
<1>11. Applied(next, edit)
  BY <1>1, <1>10 DEF Applied
<1>12. ASSUME NEW promise \in Promises, Fits(settings, promise), Allows(promise, edit)
       PROVE  Fits(next, promise)
  <2>1. \A k \in CallKeys : k # edit.key => Admission(next.keys, k) = Admission(settings.keys, k)
    BY <1>5, <1>6 DEF Admission, Allowed
  <2>2. edit.enabled \in promise.keys[edit.key]
    BY <1>1, <1>12 DEF Allows
  <2>3. Admission(next.keys, edit.key) \in promise.keys[edit.key]
    BY <1>1, <1>10, <1>12, <2>2 DEF Fits
  <2>4. QED BY <1>6, <1>12, <2>1, <2>3 DEF Fits
<1>13. QED BY <1>6, <1>7, <1>8, <1>9, <1>11, <1>12

\* A start widens the promise by what it adds to the settings.
LEMMA StartFacts ==
    ASSUME file \in File, env \in Environments, promised \in Promises
    PROVE  LET next == AtStart(promised)
           IN  /\ next \in Promises
               /\ \A k \in CallKeys : promised.keys[k] \subseteq next.keys[k]
               /\ promised.hash \subseteq next.hash /\ promised.require \subseteq next.require
               /\ file.kind # "absent" =>
                     /\ \A k \in CallKeys : k = env.key => "on" \in next.keys[k]
                     /\ env.password = "on" /\ file.data.hash = None => Plain \in next.hash
<1> DEFINE keys == [k \in CallKeys |-> promised.keys[k] \cup (IF k = env.key THEN {"on"} ELSE {})]
           hash == promised.hash \cup (IF env.password = "on" /\ file.data.hash = None
                                      THEN {Plain} ELSE {})
           next == [keys |-> keys, hash |-> hash, require |-> promised.require]
<1>1. /\ promised.keys \in [CallKeys -> SUBSET Flags] /\ promised.hash \subseteq Hashes
      /\ promised.require \subseteq Flags
  BY SMT DEF Promises
<1>2. /\ keys \in [CallKeys -> SUBSET Flags]
      /\ \A k \in CallKeys : promised.keys[k] \subseteq keys[k] /\ (k = env.key => "on" \in keys[k])
  BY <1>1, SMT DEF Flags
<1>3. /\ hash \subseteq Hashes /\ promised.hash \subseteq hash
      /\ env.password = "on" /\ file.data.hash = None => Plain \in hash
  BY <1>1, SMT DEF Hashes
<1>4. next.keys = keys /\ next.hash = hash /\ next.require = promised.require
  OBVIOUS
<1>5. AtStart(promised) = IF file.kind = "absent" THEN promised ELSE next
  BY DEF AtStart
<1> HIDE DEF keys, hash
<1>6. next \in Promises
  BY <1>1, <1>2, <1>3, SMT DEF Promises
<1> HIDE DEF next
<1>7. CASE file.kind = "absent"
  BY <1>5, <1>7
<1>8. CASE file.kind # "absent"
  BY <1>2, <1>3, <1>4, <1>5, <1>6, <1>8
<1>9. QED BY <1>7, <1>8

LEMMA OverriddenFacts ==
    ASSUME NEW settings \in Settings, env \in Environments
    PROVE  LET next == Overridden(settings)
           IN  /\ next \in Settings
               /\ next.require = settings.require
               /\ \/ next.hash = settings.hash
                  \/ env.password = "on" /\ settings.hash = None /\ next.hash = Plain
               /\ \A k \in CallKeys :
                     Admission(next.keys, k) = IF k = env.key THEN "on" ELSE Admission(settings.keys, k)
               /\ FirstOnly(settings) => FirstOnly(next)
<1> DEFINE hash == IF env.password = "on" /\ settings.hash = None THEN Plain ELSE settings.hash
           keys == [k \in CallKeys |-> IF k = env.key THEN Append(settings.keys[k], "on")
                                       ELSE settings.keys[k]]
           next == [keys |-> keys, hash |-> hash, require |-> settings.require]
<1>1. Overridden(settings) = next
  BY DEF Overridden
<1>2. settings.keys \in [CallKeys -> Seq(Flags)] /\ settings.hash \in Hashes /\ settings.require \in Flags
  BY SMT DEF Settings
<1> DEFINE more(k) == Append(settings.keys[k], "on")
<1>3. ASSUME NEW k \in CallKeys
      PROVE  /\ more(k) \in Seq(Flags)
             /\ \E i \in 1..Len(more(k)) : more(k)[i] = "on"
             /\ (\A i \in 2..Len(settings.keys[k]) : settings.keys[k][i] = "on") =>
                   \A i \in 2..Len(more(k)) : more(k)[i] = "on"
  <2>1. settings.keys[k] \in Seq(Flags) /\ "on" \in Flags
    BY <1>2, SMT DEF Flags
  <2>2. QED BY <2>1, SMT
<1>4. /\ keys \in [CallKeys -> Seq(Flags)]
      /\ \A k \in CallKeys : keys[k] = IF k = env.key THEN more(k) ELSE settings.keys[k]
  BY <1>2, <1>3
<1> HIDE DEF more
<1>5. hash \in Hashes
  BY <1>2 DEF Hashes
<1>6. next.keys = keys /\ next.hash = hash /\ next.require = settings.require
  OBVIOUS
<1>7. settings.hash = hash \/ (env.password = "on" /\ settings.hash = None /\ hash = Plain)
  OBVIOUS
<1> HIDE DEF keys, hash
<1>8. next \in Settings
  BY <1>2, <1>4, <1>5, SMT DEF Settings
<1> HIDE DEF next
<1>9. ASSUME NEW k \in CallKeys
      PROVE  Admission(next.keys, k) = IF k = env.key THEN "on" ELSE Admission(settings.keys, k)
  BY <1>3, <1>4, <1>6, <1>9 DEF Admission, Allowed
<1>10. FirstOnly(settings) => FirstOnly(next)
  BY <1>3, <1>4, <1>6 DEF FirstOnly
<1>11. QED BY <1>1, <1>6, <1>7, <1>8, <1>9, <1>10

----------------------------------------------------------------------------
(* The invariant. *)

LEMMA AccessInitInv == ASSUME AccessInit PROVE AccessInv
<1>1. file \in File /\ (file.kind = "absent" => file.data = Default)
  <2>1. CASE file = Absent
    BY <2>1, DefaultFacts, SMT DEF File, Absent
  <2>2. CASE \E settings \in Installed : file = Whole(settings)
    BY <2>2, InstalledAssumption, SMT DEF File, Whole
  <2>3. QED BY <2>1, <2>2 DEF AccessInit
<1>2. file.data \in Settings
  BY <1>1, SMT DEF File
<1>3. promised \in Promises /\ Fits(file.data, promised)
  <2>1. promised = PromiseOf(file.data)
    BY DEF AccessInit
  <2>2. \A k \in CallKeys : Admission(file.data.keys, k) \in Flags
    BY DEF Admission, Flags
  <2>3. file.data.hash \in Hashes /\ file.data.require \in Flags
    BY <1>2, SMT DEF Settings
  <2>4. PromiseOf(file.data) \in Promises
    BY <2>2, <2>3, SMT DEF PromiseOf, Promises
  <2>5. Fits(file.data, PromiseOf(file.data))
    BY DEF Fits, PromiseOf
  <2>6. QED BY <2>1, <2>4, <2>5
<1>4. cfg = Default /\ callKeys = {} /\ adminHash = None /\ unsynced = FALSE
      /\ up = FALSE /\ env \in Environments /\ call = Idle
  BY DEF AccessInit
<1>5. Default.hash = None
  BY DEF Default
<1>6. call \in Calls /\ call.pc = "idle"
  BY <1>4, SMT DEF Calls, Idle
<1>7. SettingTypes
  BY <1>1, <1>3, <1>4, <1>6, DefaultFacts DEF SettingTypes, Hashes
<1>8. CallInv
  BY <1>4, <1>6 DEF CallInv
<1>9. QED BY <1>3, <1>4, <1>5, <1>7, <1>8 DEF AccessInv, KeptInv, FollowInv

\* What an action leaves the primed invariant to be shown from.
LEMMA Assemble ==
    ASSUME Fits(file'.data, promised'), adminHash' = cfg'.hash,
           up' => Fits(cfg', promised') /\ LiveFits(callKeys', promised'),
           call' # Idle => Allows(promised', call'.edit),
           call'.pc \in {"save", "sync"} => Applied(cfg', call'.edit),
           call'.pc = "sync" => file'.data = cfg' 
    PROVE  KeptInv' /\ CallInv'
<1>1. KeptInv'
  BY DEF KeptInv, Fits, LiveFits
<1>2. CallInv'
  BY DEF CallInv, Allows, Applied, Decides, Admission, Allowed, Idle, NoEdit
<1>3. QED BY <1>1, <1>2

LEMMA UnchangedInv ==
    ASSUME AccessInv, UNCHANGED <<settingVars, up, env, call>>
    PROVE  AccessInv'
<1>1. /\ cfg' = cfg /\ file' = file /\ callKeys' = callKeys /\ adminHash' = adminHash
      /\ promised' = promised /\ unsynced' = unsynced /\ up' = up /\ env' = env /\ call' = call
  BY DEF settingVars
<1>2. SettingTypes' /\ FollowInv'
  BY <1>1 DEF AccessInv, SettingTypes, FollowInv
<1>3. KeptInv' /\ CallInv'
  BY <1>1, Assemble DEF AccessInv, KeptInv, CallInv
<1>4. QED BY <1>2, <1>3 DEF AccessInv

\* The admission of the settings and that of the manager that was told of them.
LEMMA FitsLive ==
    ASSUME NEW settings, NEW promise, Fits(settings, promise)
    PROVE  LiveFits(Allowed(settings.keys), promise)
BY DEF Fits, LiveFits, Admission

LEMMA BootInv == ASSUME AccessInv, Boot PROVE AccessInv'
<1>1. /\ ~up /\ up' = TRUE /\ cfg' = Load /\ adminHash' = Load.hash
      /\ callKeys' = Allowed(Load.keys) /\ file' = file /\ promised' = AtStart(promised)
      /\ unsynced' = unsynced /\ env' = env /\ call' = call
  BY DEF Boot
<1>2. /\ file \in File /\ file.data \in Settings /\ promised \in Promises
      /\ Fits(file.data, promised) /\ call = Idle /\ env \in Environments
      /\ (file.kind = "absent" => file.data = Default)
  BY <1>1, SMT DEF AccessInv, SettingTypes, KeptInv, File
<1>3. /\ promised' \in Promises
      /\ \A k \in CallKeys : promised.keys[k] \subseteq promised'.keys[k]
      /\ promised.hash \subseteq promised'.hash /\ promised.require \subseteq promised'.require
      /\ file.kind # "absent" =>
            /\ \A k \in CallKeys : k = env.key => "on" \in promised'.keys[k]
            /\ env.password = "on" /\ file.data.hash = None => Plain \in promised'.hash
  BY <1>1, <1>2, StartFacts
<1>4. Fits(file.data, promised')
  BY <1>2, <1>3, FitsGrows
<1>5. Load \in Settings /\ Fits(Load, promised')
  <2>1. CASE file.kind = "absent"
    BY <1>2, <1>4, <2>1, DefaultFacts DEF Load
  <2>2. CASE file.kind # "absent"
    <3>1. Load = Overridden(file.data)
      BY <2>2 DEF Load
    <3>2. QED BY <1>2, <1>3, <1>4, <2>2, <3>1, OverriddenFacts DEF Fits
  <2>3. QED BY <2>1, <2>2
<1>6. LiveFits(Allowed(Load.keys), promised')
  BY <1>5, FitsLive
<1>7. call.pc = "idle"
  BY <1>2 DEF Idle
<1>8. KeptInv' /\ CallInv'
  BY <1>1, <1>2, <1>4, <1>5, <1>6, <1>7, Assemble
<1>9. Load.hash \in Hashes /\ Allowed(Load.keys) \subseteq CallKeys
  BY <1>5, SMT DEF Settings, Allowed
<1>10. SettingTypes'
  BY <1>1, <1>2, <1>3, <1>5, <1>9 DEF SettingTypes, AccessInv
<1>11. FollowInv'
  BY <1>1 DEF FollowInv
<1>12. QED BY <1>8, <1>10, <1>11 DEF AccessInv

LEMMA CrashInv == ASSUME AccessInv, Crash PROVE AccessInv'
<1>1. /\ up' = FALSE /\ cfg' = Default /\ adminHash' = None /\ callKeys' = {}
      /\ file' = file /\ promised' = promised /\ unsynced' = FALSE /\ env' \in Environments /\ call' = Idle
  BY DEF Crash
<1>2. Default.hash = None /\ Idle.pc = "idle" /\ Idle \in Calls
  BY DEF Default, Idle, Calls
<1>3. KeptInv' /\ CallInv'
  BY <1>1, <1>2, Assemble DEF AccessInv, KeptInv
<1>4. SettingTypes'
  BY <1>1, <1>2, DefaultFacts DEF SettingTypes, AccessInv, Hashes
<1>5. FollowInv'
  BY <1>1 DEF FollowInv
<1>6. QED BY <1>3, <1>4, <1>5 DEF AccessInv

\* A call that begins only widens the promise.
LEMMA BeginInv ==
    ASSUME AccessInv, NEW edit \in Edits, Begin(edit)
    PROVE  AccessInv'
<1>1. /\ up /\ up' = up /\ call = Idle /\ call' = [pc |-> "edit", edit |-> edit]
      /\ promised' = Maybe(promised, edit) /\ cfg' = cfg /\ file' = file
      /\ callKeys' = callKeys /\ adminHash' = adminHash /\ unsynced' = unsynced /\ env' = env
  BY DEF Begin, worldVars
<1>2. /\ promised' \in Promises /\ promised.hash \subseteq promised'.hash
      /\ promised.require \subseteq promised'.require
      /\ \A k \in CallKeys : promised.keys[k] \subseteq promised'.keys[k]
      /\ Allows(promised', edit)
  BY <1>1, MaybeGrows DEF AccessInv, SettingTypes
<1>3. Fits(cfg, promised') /\ Fits(file.data, promised') /\ LiveFits(callKeys, promised')
  <2>1. Fits(cfg, promised) /\ Fits(file.data, promised) /\ LiveFits(callKeys, promised)
    BY <1>1 DEF AccessInv, KeptInv
  <2>2. LiveFits(callKeys, promised')
    BY <2>1, <1>2 DEF LiveFits
  <2>3. QED BY <2>1, <2>2, <1>2, FitsGrows
<1>4. call'.pc = "edit" /\ call'.edit = edit /\ call' \in Calls
  BY <1>1, SMT DEF Calls
<1>5. KeptInv' /\ CallInv'
  BY <1>1, <1>2, <1>3, <1>4, Assemble DEF AccessInv, KeptInv
<1>6. SettingTypes'
  BY <1>1, <1>2, <1>4 DEF SettingTypes, AccessInv
<1>7. FollowInv'
  BY <1>1 DEF FollowInv, AccessInv
<1>8. QED BY <1>5, <1>6, <1>7 DEF AccessInv

\* What holds while a call is under way.
LEMMA UnderWay ==
    ASSUME AccessInv, call # Idle
    PROVE  /\ up /\ env \in Environments
           /\ call.edit \in Edits /\ Allows(promised, call.edit)
           /\ cfg \in Settings /\ promised \in Promises /\ file \in File /\ file.data \in Settings
           /\ adminHash = cfg.hash
           /\ Fits(cfg, promised) /\ Fits(file.data, promised) /\ LiveFits(callKeys, promised)
           /\ callKeys \subseteq CallKeys /\ unsynced \in BOOLEAN
<1>1. up /\ call.edit \in Edits /\ Allows(promised, call.edit)
  BY CallKinds DEF AccessInv, SettingTypes, CallInv
<1>2. file.data \in Settings
  BY SMT DEF AccessInv, SettingTypes, File
<1>3. QED BY <1>1, <1>2 DEF AccessInv, SettingTypes, KeptInv

LEMMA EditSettingsInv == ASSUME AccessInv, EditSettings PROVE AccessInv'
<1> DEFINE edit == call.edit
           hash == IF edit.password = "keep" THEN cfg.hash ELSE edit.password
<1>1. /\ call.pc = "edit" /\ edit.kind = "settings" /\ call # Idle
      /\ file' = file /\ callKeys' = callKeys /\ up' = up /\ env' = env
  BY DEF EditSettings, worldVars, Idle
<1>2. /\ edit \in SettingsEdits /\ edit.require \in Flags /\ edit.password \in Passwords \cup {"keep"}
      /\ cfg.keys \in [CallKeys -> Seq(Flags)] /\ cfg.hash \in Hashes
  <2>1. edit \in SettingsEdits
    BY <1>1, UnderWay, EditKinds, SMT DEF Edits
  <2>2. QED BY <2>1, <1>1, UnderWay, EditKinds, SMT DEF Settings
<1>3. edit.require \in promised.require /\ (edit.password # "keep" => edit.password \in promised.hash)
  BY <1>1, UnderWay DEF Allows
<1>4. CASE /\ cfg' = [keys |-> cfg.keys, hash |-> hash, require |-> edit.require]
           /\ adminHash' = IF edit.password = "keep" THEN adminHash ELSE hash
           /\ call' = [call EXCEPT !.pc = "save"]
           /\ UNCHANGED <<promised, unsynced>>
  <2>1. cfg'.keys = cfg.keys /\ cfg'.hash = hash /\ cfg'.require = edit.require
    BY <1>4
  <2>2. call' \in Calls /\ call'.pc = "save" /\ call'.edit = edit /\ call' # Idle
    BY <1>1, <1>2, <1>4, UnderWay, SMT DEF Calls, AccessInv, SettingTypes, Idle
  <2>3. hash \in Hashes
    BY <1>2 DEF Hashes
  <2>4. cfg' \in Settings
    BY <1>2, <1>4, <2>3, SMT DEF Settings
  <2>5. Fits(cfg', promised) /\ adminHash' = cfg'.hash
    BY <1>1, <1>3, <1>4, <2>1, UnderWay DEF Fits
  <2>6. Applied(cfg', edit)
    BY <1>1, <2>1 DEF Applied
  <2>7. KeptInv' /\ CallInv'
    BY <1>1, <1>4, <2>2, <2>5, <2>6, UnderWay, Assemble
  <2>8. SettingTypes'
    BY <1>1, <1>4, <2>1, <2>2, <2>3, <2>4, <2>5, UnderWay DEF SettingTypes, AccessInv
  <2>9. FollowInv'
    BY <1>1, <1>4, <2>1, <2>2 DEF FollowInv, AccessInv
  <2>10. QED BY <2>7, <2>8, <2>9 DEF AccessInv
<1>5. CASE /\ cfg' = [keys |-> cfg.keys, hash |-> cfg.hash, require |-> edit.require]
           /\ Fail /\ UNCHANGED adminHash
  <2>1. cfg'.keys = cfg.keys /\ cfg'.hash = cfg.hash /\ cfg'.require = edit.require
    BY <1>5
  <2>2. call' = Idle /\ call'.pc = "idle" /\ call' \in Calls /\ promised' = promised
        /\ unsynced' = unsynced
    BY <1>1, <1>5, UnderWay DEF Fail, Idle, Calls
  <2>3. cfg' \in Settings
    BY <1>2, <1>5, SMT DEF Settings
  <2>4. Fits(cfg', promised) /\ adminHash' = cfg'.hash
    BY <1>1, <1>3, <1>5, <2>1, UnderWay DEF Fits
  <2>5. KeptInv' /\ CallInv'
    BY <1>1, <2>2, <2>4, UnderWay, Assemble
  <2>6. SettingTypes'
    BY <1>1, <1>5, <2>2, <2>3, UnderWay DEF SettingTypes, AccessInv
  <2>7. FollowInv'
    BY <1>1, <2>1, <2>2 DEF FollowInv, AccessInv
  <2>8. QED BY <2>5, <2>6, <2>7 DEF AccessInv
<1>6. QED BY <1>4, <1>5 DEF EditSettings

LEMMA EditKeysInv == ASSUME AccessInv, EditKeys PROVE AccessInv'
<1> DEFINE edit == call.edit
<1>1. /\ call.pc = "edit" /\ edit.kind \in {"upsert", "delete"} /\ call # Idle
      /\ cfg' = WithKey(cfg, edit) /\ call' = [call EXCEPT !.pc = "save"]
      /\ file' = file /\ callKeys' = callKeys /\ adminHash' = adminHash /\ promised' = promised
      /\ unsynced' = unsynced /\ up' = up /\ env' = env
  BY DEF EditKeys, worldVars, Idle
<1>2. edit \in KeyEdits
  BY <1>1, UnderWay, EditKinds DEF Edits
<1>3. /\ cfg' \in Settings /\ cfg'.hash = cfg.hash /\ Applied(cfg', edit)
      /\ Fits(cfg', promised)
  BY <1>1, <1>2, UnderWay, EditedSettings
<1>4. call' \in Calls /\ call'.pc = "save" /\ call'.edit = edit /\ call' # Idle
  BY <1>1, UnderWay, SMT DEF Calls, AccessInv, SettingTypes, Idle
<1>5. KeptInv' /\ CallInv'
  BY <1>1, <1>3, <1>4, UnderWay, Assemble
<1>6. SettingTypes'
  BY <1>1, <1>3, <1>4, UnderWay DEF SettingTypes, AccessInv
<1>7. FollowInv'
  BY <1>1, <1>4 DEF FollowInv
<1>8. QED BY <1>5, <1>6, <1>7 DEF AccessInv

LEMMA EditBlankInv == ASSUME AccessInv, EditBlank PROVE AccessInv'
<1>1. /\ call.pc = "edit" /\ call.edit.kind = "blank" /\ call # Idle
      /\ call' = [call EXCEPT !.pc = "save"]
      /\ cfg' = cfg /\ file' = file /\ callKeys' = callKeys /\ adminHash' = adminHash
      /\ promised' = promised /\ unsynced' = unsynced /\ up' = up /\ env' = env
  BY DEF EditBlank, settingVars, worldVars, Idle
<1>2. call' \in Calls /\ call'.pc = "save" /\ call'.edit = call.edit /\ call' # Idle
  BY <1>1, UnderWay, SMT DEF Calls, AccessInv, SettingTypes, Idle
<1>3. Applied(cfg', call.edit)
  BY <1>1 DEF Applied
<1>4. KeptInv' /\ CallInv'
  BY <1>1, <1>2, <1>3, UnderWay, Assemble
<1>5. SettingTypes'
  BY <1>1, <1>2, UnderWay DEF SettingTypes, AccessInv
<1>6. FollowInv'
  BY <1>1, <1>2 DEF FollowInv
<1>7. QED BY <1>4, <1>5, <1>6 DEF AccessInv

LEMMA SaveInv == ASSUME AccessInv, Save PROVE AccessInv'
<1> DEFINE edit == call.edit
<1>1. /\ call.pc = "save" /\ call # Idle /\ cfg' = cfg /\ callKeys' = callKeys
      /\ adminHash' = adminHash /\ up' = up /\ env' = env
  BY DEF Save, worldVars, Idle
<1>2. Applied(cfg, edit) /\ edit \in Edits
  BY <1>1, UnderWay DEF AccessInv, CallInv
<1>3. CASE /\ file' = Whole(cfg) /\ edit.kind = "settings" /\ Acknowledge /\ UNCHANGED unsynced
  <2>1. /\ call' = Idle /\ call'.pc = "idle" /\ call' \in Calls
        /\ promised' = Surely(promised, edit) /\ unsynced' = unsynced
    BY <1>3 DEF Acknowledge, Idle, Calls
  <2>2. file' \in File /\ file'.data = cfg /\ file'.kind = "whole"
    BY <1>1, <1>3, UnderWay, SMT DEF Whole, File
  <2>3. Fits(cfg, promised') /\ promised' \in Promises
    BY <1>1, <1>2, <2>1, UnderWay, SurelyFits
  <2>4. LiveFits(callKeys, promised')
    BY <1>1, <1>3, <2>1, UnderWay DEF LiveFits, Surely
  <2>5. KeptInv' /\ CallInv'
    BY <1>1, <2>1, <2>2, <2>3, <2>4, UnderWay, Assemble
  <2>6. SettingTypes'
    BY <1>1, <2>1, <2>2, <2>3, UnderWay DEF SettingTypes, AccessInv
  <2>7. FollowInv'
    BY <1>1, <1>3, <2>1 DEF FollowInv, AccessInv
  <2>8. QED BY <2>5, <2>6, <2>7 DEF AccessInv
<1>4. CASE /\ file' = Whole(cfg) /\ edit.kind # "settings"
           /\ call' = [call EXCEPT !.pc = "sync"] /\ UNCHANGED <<promised, unsynced>>
  <2>1. edit \in KeyEdits \cup {Blank}
    BY <1>2, <1>4, EditKinds DEF Edits
  <2>2. call' \in Calls /\ call'.pc = "sync" /\ call'.edit = edit /\ call' # Idle
    BY <1>1, <1>4, <2>1, SMT DEF Calls, AccessInv, SettingTypes, Idle
  <2>3. file' \in File /\ file'.data = cfg /\ file'.kind = "whole"
    BY <1>1, <1>4, UnderWay, SMT DEF Whole, File
  <2>4. KeptInv' /\ CallInv'
    BY <1>1, <1>2, <1>4, <2>2, <2>3, UnderWay, Assemble
  <2>5. SettingTypes'
    BY <1>1, <1>4, <2>2, <2>3, UnderWay DEF SettingTypes, AccessInv
  <2>6. FollowInv'
    BY <1>1, <1>4, <2>2 DEF FollowInv
  <2>7. QED BY <2>4, <2>5, <2>6 DEF AccessInv
<1>5. CASE Fail /\ UNCHANGED file
  <2>1. /\ call' = Idle /\ call'.pc = "idle" /\ call' \in Calls /\ promised' = promised
        /\ unsynced' = (unsynced \/ edit.kind # "settings") /\ file' = file
    BY <1>5 DEF Fail, Idle, Calls
  <2>2. KeptInv' /\ CallInv'
    BY <1>1, <2>1, UnderWay, Assemble
  <2>3. SettingTypes'
    BY <1>1, <2>1, UnderWay DEF SettingTypes, AccessInv
  <2>4. FollowInv'
    BY <1>1, <2>1 DEF FollowInv, AccessInv
  <2>5. QED BY <2>2, <2>3, <2>4 DEF AccessInv
<1>6. QED BY <1>3, <1>4, <1>5 DEF Save

LEMMA SyncKeysInv == ASSUME AccessInv, SyncKeys PROVE AccessInv'
<1> DEFINE edit == call.edit
<1>1. /\ call.pc = "sync" /\ call # Idle /\ callKeys' = Allowed(cfg.keys) /\ unsynced' = FALSE
      /\ call' = Idle /\ call'.pc = "idle" /\ call' \in Calls /\ promised' = Surely(promised, edit)
      /\ cfg' = cfg /\ file' = file /\ adminHash' = adminHash /\ up' = up /\ env' = env
  BY DEF SyncKeys, Acknowledge, worldVars, Idle, Calls
<1>2. Applied(cfg, edit) /\ file.data = cfg /\ edit \in Edits
  BY <1>1, UnderWay DEF AccessInv, CallInv
<1>3. Fits(cfg, promised') /\ Fits(file.data, promised') /\ promised' \in Promises
  BY <1>1, <1>2, UnderWay, SurelyFits
<1>4. LiveFits(callKeys', promised')
  BY <1>1, <1>3, FitsLive
<1>5. KeptInv' /\ CallInv'
  BY <1>1, <1>3, <1>4, UnderWay, Assemble
<1>6. callKeys' \subseteq CallKeys
  BY <1>1 DEF Allowed
<1>7. SettingTypes'
  BY <1>1, <1>3, <1>6, UnderWay DEF SettingTypes, AccessInv
<1>8. FollowInv'
  BY <1>1 DEF FollowInv
<1>9. QED BY <1>5, <1>7, <1>8 DEF AccessInv

LEMMA SaveOtherInv == ASSUME AccessInv, SaveOther PROVE AccessInv'
<1>1. /\ up /\ file' = Whole(cfg) /\ cfg' = cfg /\ callKeys' = callKeys
      /\ adminHash' = adminHash /\ promised' = promised /\ unsynced' = unsynced
      /\ up' = up /\ env' = env /\ call' = call
  BY DEF SaveOther, worldVars
<1>2. file' \in File /\ file'.data = cfg /\ file'.kind = "whole"
  BY <1>1, SMT DEF Whole, File, AccessInv, SettingTypes
<1>3. call.pc = "sync" => call.pc \in {"save", "sync"}
  OBVIOUS
<1>4. KeptInv' /\ CallInv'
  BY <1>1, <1>2, <1>3, Assemble DEF AccessInv, KeptInv, CallInv
<1>5. SettingTypes'
  BY <1>1, <1>2 DEF SettingTypes, AccessInv
<1>6. FollowInv'
  BY <1>1 DEF FollowInv, AccessInv
<1>7. QED BY <1>4, <1>5, <1>6 DEF AccessInv

\* Every step keeps the invariant.
LEMMA AccessStepInv == ASSUME AccessInv, [AccessNext]_accessVars PROVE AccessInv'
<1>1. CASE Boot
  BY <1>1, BootInv
<1>2. CASE Crash
  BY <1>2, CrashInv
<1>3. CASE \E password \in Passwords : Verify(password)
  BY <1>3, UnchangedInv DEF Verify, worldVars
<1>4. CASE \E tok \in Tokens : Admit(tok) \/ Expire(tok) \/ Logout(tok)
  BY <1>4, UnchangedInv DEF Admit, Expire, Logout, worldVars
<1>5. CASE \E edit \in Edits : Begin(edit)
  BY <1>5, BeginInv
<1>6. CASE EditSettings
  BY <1>6, EditSettingsInv
<1>7. CASE EditKeys
  BY <1>7, EditKeysInv
<1>8. CASE Save
  BY <1>8, SaveInv
<1>9. CASE SyncKeys
  BY <1>9, SyncKeysInv
<1>10. CASE SaveOther
  BY <1>10, SaveOtherInv
<1>11. CASE Tick
  BY <1>11, UnchangedInv DEF Tick
<1>12. CASE EditBlank
  BY <1>12, EditBlankInv
<1>13. CASE UNCHANGED accessVars
  BY <1>13, UnchangedInv DEF accessVars, worldVars
<1>14. QED
  BY <1>1, <1>2, <1>3, <1>4, <1>5, <1>6, <1>7, <1>8, <1>9, <1>10, <1>11, <1>12, <1>13 DEF AccessNext

----------------------------------------------------------------------------
(* The theorems. *)

\* The invariant that both of the others rest on.
THEOREM AccessInvariant == AccessSpec => []AccessInv
BY AccessInitInv, AccessStepInv, PTL DEF AccessSpec

\* adminapi.go:486-491: what a call answered with 200 holds, in the file for the
\* next start and in the manager, through crashes, failing saves and restarts in
\* other environments, until a later call or a start asks for something else.
THEOREM AnswersHold == AccessSpec => []PromisesKept
<1>1. AccessInv => PromisesKept
  BY DEF AccessInv, KeptInv, LiveFits, PromisesKept
<1>2. QED BY <1>1, AccessInvariant, PTL

\* adminapi.go:534: between calls the gate lets through the enabled keys of the
\* settings, unless an edit of the keys has failed to be saved.
THEOREM GateFollowsSettings == AccessSpec => []AllowListFollows
<1>1. AccessInv => AllowListFollows
  BY DEF AccessInv, FollowInv, AllowListFollows
<1>2. QED BY <1>1, AccessInvariant, PTL

----------------------------------------------------------------------------
(* Sessions. *)

\* A session knows when it was issued; no token is issued again once it has ended.
SessionInv ==
    /\ sessions \in [Tokens -> Nat] /\ issued \in [Tokens -> Nat] /\ now \in Nat \ {0}
    /\ \A tok \in Tokens :
          /\ sessions[tok] # 0 => tok \notin ended /\ sessions[tok] = issued[tok] + TTL
          /\ issued[tok] = 0 => tok \notin ended /\ sessions[tok] = 0

LEMMA SessionInitInv == ASSUME AccessInit PROVE SessionInv
BY SMT DEF AccessInit, SessionInv

LEMMA SessionStepInv == ASSUME SessionInv, [AccessNext]_accessVars PROVE SessionInv'
<1>1. ASSUME UNCHANGED <<sessionVars, now>> PROVE SessionInv'
  BY <1>1 DEF SessionInv, sessionVars
<1>2. CASE Crash
  <2>1. /\ sessions' = [tok \in Tokens |-> 0] /\ issued' = issued /\ now' = now
        /\ ended' = ended \cup {tok \in Tokens : sessions[tok] # 0}
    BY <1>2 DEF Crash
  <2>2. QED BY <2>1, SMT DEF SessionInv
<1>3. CASE Tick
  <2>1. sessions' = sessions /\ issued' = issued /\ ended' = ended /\ now' = now + 1
    BY <1>3 DEF Tick, sessionVars
  <2>2. QED BY <2>1, SMT DEF SessionInv
<1>4. ASSUME NEW tok \in Tokens, Admit(tok) PROVE SessionInv'
  <2>1. /\ issued[tok] = 0 /\ sessions' = [sessions EXCEPT ![tok] = now + TTL]
        /\ issued' = [issued EXCEPT ![tok] = now] /\ ended' = ended /\ now' = now
    BY <1>4 DEF Admit, worldVars
  <2>2. TTL \in Nat \ {0}
    BY AccessAssumption
  <2>3. QED BY <2>1, <2>2, SMT DEF SessionInv
<1>5. ASSUME NEW tok \in Tokens, Expire(tok) \/ Logout(tok) PROVE SessionInv'
  <2>1. CASE Expire(tok)
    <3>1. sessions' = [sessions EXCEPT ![tok] = 0] /\ issued' = issued /\ ended' = ended /\ now' = now
      BY <2>1 DEF Expire, worldVars
    <3>2. QED BY <3>1, SMT DEF SessionInv
  <2>2. CASE Logout(tok)
    <3>1. /\ sessions' = [sessions EXCEPT ![tok] = 0] /\ issued[tok] # 0 /\ issued' = issued
          /\ ended' = ended \cup {tok} /\ now' = now
      BY <2>2 DEF Logout, worldVars
    <3>2. QED BY <3>1, SMT DEF SessionInv
  <2>3. QED BY <1>5, <2>1, <2>2
<1>6. CASE \E password \in Passwords : Verify(password)
  <2>1. sessions' = sessions /\ issued' = issued /\ ended' = ended /\ now' = now
    BY <1>6 DEF Verify, worldVars
  <2>2. QED BY <2>1 DEF SessionInv
<1>7. CASE Boot \/ (\E edit \in Edits : Begin(edit)) \/ EditSettings
           \/ EditKeys \/ EditBlank \/ Save \/ SyncKeys \/ SaveOther
  BY <1>1, <1>7 DEF Boot, Begin, EditSettings, EditKeys, EditBlank, Save, SyncKeys, SaveOther, worldVars
<1>8. CASE UNCHANGED accessVars
  BY <1>1, <1>8 DEF accessVars, worldVars
<1>9. QED BY <1>2, <1>3, <1>4, <1>5, <1>6, <1>7, <1>8 DEF AccessNext

\* auth.go:106: no session outlives SessionTTL, its logout or its process.
THEOREM SessionsDoEnd == AccessSpec => []SessionsEnd
<1>1. SessionInv => SessionsEnd
  BY AccessAssumption, SMT DEF SessionInv, SessionsEnd, Valid
<1>2. QED BY <1>1, SessionInitInv, SessionStepInv, PTL DEF AccessSpec

----------------------------------------------------------------------------
(* The types of all variables: those above, and the counters. *)

CounterTypes ==
    /\ login \in Passwords \cup {None} /\ ended \subseteq Tokens
    /\ boots \in Nat /\ calls \in Nat

LEMMA CounterInit == ASSUME AccessInit PROVE CounterTypes
BY DEF AccessInit, CounterTypes

LEMMA CounterStep == ASSUME CounterTypes, [AccessNext]_accessVars PROVE CounterTypes'
<1> USE DEF CounterTypes
<1>1. ASSUME UNCHANGED <<login, ended>>, boots' \in Nat, calls' \in Nat PROVE CounterTypes'
  BY <1>1
<1>2. CASE Boot \/ Tick
  BY <1>1, <1>2, SMT DEF Boot, Tick, sessionVars
<1>3. CASE Crash
  <2>1. UNCHANGED <<boots, calls>> /\ login' = None
    BY <1>3 DEF Crash
  <2>2. ended' \subseteq Tokens
    BY <1>3 DEF Crash
  <2>3. QED BY <2>1, <2>2
<1>4. CASE \E password \in Passwords : Verify(password)
  BY <1>4 DEF Verify, worldVars
<1>5. ASSUME NEW tok \in Tokens, Admit(tok) \/ Expire(tok) \/ Logout(tok) PROVE CounterTypes'
  BY <1>5 DEF Admit, Expire, Logout, worldVars
<1>6. CASE \E edit \in Edits : Begin(edit)
  BY <1>1, <1>6, SMT DEF Begin, sessionVars, worldVars
<1>7. CASE EditSettings \/ EditKeys \/ EditBlank \/ Save \/ SyncKeys \/ SaveOther
  BY <1>1, <1>7 DEF EditSettings, EditKeys, EditBlank, Save, SyncKeys, SaveOther, sessionVars, worldVars
<1>8. CASE UNCHANGED accessVars
  BY <1>1, <1>8 DEF accessVars, sessionVars, worldVars
<1>9. QED BY <1>2, <1>3, <1>4, <1>5, <1>6, <1>7, <1>8 DEF AccessNext

\* What follows a key's first entry, in memory and in the file.
EntryInv == FirstOnly(cfg) /\ FirstOnly(file.data)

LEMMA EntryInit == ASSUME AccessInit PROVE EntryInv
<1>1. FirstOnly(file.data)
  <2>1. CASE file = Absent
    BY <2>1, DefaultFacts DEF Absent
  <2>2. CASE \E settings \in Installed : file = Whole(settings)
    BY <2>2, InstalledAssumption DEF Whole
  <2>3. QED BY <2>1, <2>2 DEF AccessInit
<1>2. QED BY <1>1, DefaultFacts DEF AccessInit, EntryInv

LEMMA EntryStep == ASSUME EntryInv, AccessInv, [AccessNext]_accessVars PROVE EntryInv'
<1>1. ASSUME UNCHANGED <<cfg, file>> PROVE EntryInv'
  BY <1>1 DEF EntryInv
<1>2. CASE Boot
  <2>1. cfg' = Load /\ file' = file /\ file.data \in Settings /\ env \in Environments
    BY <1>2, SMT DEF Boot, AccessInv, SettingTypes, File
  <2>2. FirstOnly(Load)
    BY <2>1, OverriddenFacts, DefaultFacts DEF Load, EntryInv
  <2>3. QED BY <2>1, <2>2 DEF EntryInv
<1>3. CASE Crash
  BY <1>3, DefaultFacts DEF Crash, EntryInv
<1>4. CASE EditSettings
  <2>1. cfg'.keys = cfg.keys /\ file' = file
    BY <1>4 DEF EditSettings
  <2>2. QED BY <2>1 DEF EntryInv, FirstOnly
<1>5. CASE EditKeys
  <2>1. /\ cfg' = WithKey(cfg, call.edit) /\ file' = file /\ call # Idle
        /\ call.edit.kind \in {"upsert", "delete"}
    BY <1>5 DEF EditKeys, Idle
  <2>2. call.edit \in KeyEdits /\ cfg \in Settings
    BY <2>1, UnderWay, EditKinds DEF Edits
  <2>3. QED BY <2>1, <2>2, EditedSettings DEF EntryInv
<1>6. CASE Save \/ SaveOther
  <2>1. cfg' = cfg /\ (file' = file \/ file' = Whole(cfg))
    BY <1>6 DEF Save, SaveOther
  <2>2. Whole(cfg).data = cfg
    BY DEF Whole
  <2>3. QED BY <2>1, <2>2 DEF EntryInv
<1>7. CASE \/ \E password \in Passwords : Verify(password)
           \/ \E tok \in Tokens : Admit(tok) \/ Expire(tok) \/ Logout(tok)
  BY <1>1, <1>7 DEF Verify, Admit, Expire, Logout, settingVars
<1>8. CASE (\E edit \in Edits : Begin(edit)) \/ EditBlank \/ SyncKeys \/ Tick
  BY <1>1, <1>8 DEF Begin, EditBlank, SyncKeys, Tick, settingVars
<1>9. CASE UNCHANGED accessVars
  BY <1>1, <1>9 DEF accessVars, settingVars
<1>10. QED
  BY <1>2, <1>3, <1>4, <1>5, <1>6, <1>7, <1>8, <1>9 DEF AccessNext

\* The types of the variables; and whatever calls and environments did, what
\* follows a key's first entry, in memory or in the file, is enabled.
THEOREM AccessTypesHold == AccessSpec => []AccessTypeOK
<1>1. AccessInv /\ EntryInv /\ SessionInv /\ CounterTypes => AccessTypeOK
  BY DEF AccessInv, SettingTypes, EntryInv, SessionInv, CounterTypes, AccessTypeOK
<1>2. AccessSpec => []SessionInv
  BY SessionInitInv, SessionStepInv, PTL DEF AccessSpec
<1>3. AccessSpec => []CounterTypes
  BY CounterInit, CounterStep, PTL DEF AccessSpec
<1>4. AccessSpec => []EntryInv
  BY EntryInit, EntryStep, AccessInvariant, PTL DEF AccessSpec
<1>5. QED BY <1>1, <1>2, <1>3, <1>4, AccessInvariant, PTL
=============================================================================
