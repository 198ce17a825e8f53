------------------------------- MODULE Access -------------------------------
(***************************************************************************)
(* Who may use the gateway: the call keys, the admin password and the      *)
(* sessions of internal/auth/auth.go, the calls of                         *)
(* internal/server/adminapi.go that change them, and the environment's     *)
(* overrides that every Load of internal/config/config.go applies; the     *)
(* environment may be another one at every start.                          *)
(*                                                                         *)
(* The same facts are kept three times: in the settings, in settings.json  *)
(* and in the authentication manager, which answers.  A call changes one   *)
(* after the other; a save may fail and the process may die in between.    *)
(* One administrator is modelled; logins, logouts and lookups of other     *)
(* sessions happen at any time.  A save is one step, as SettingsFile shows *)
(* of saves that do not overlap.                                           *)
(***************************************************************************)
EXTENDS Naturals, Sequences

CONSTANTS
    Passwords,  \* the passwords that are set and tried
    CallKeys,   \* the keys of clients
    Tokens,     \* the random session tokens
    EnvKeys,    \* what OCFREELAY_CALL_KEY may be, "none" for nothing
    Installed,  \* the settings.json that may be there at first
    TTL,        \* SessionTTL
    MaxTime,    \* bound of the clock
    MaxBoots,   \* bound of the starts
    MaxCalls    \* bound of the calls that edit settings

VARIABLES
    cfg,        \* the settings: call keys, password hash, whether keys are required
    file,       \* settings.json
    callKeys,   \* Manager.callKeys: the keys the gate lets through
    adminHash,  \* Manager.adminHash
    sessions,   \* Manager.sessions: when a token expires, 0 for no session
    login,      \* the password of a login between its check and its session
    up,         \* whether the process runs
    env,        \* the environment: a call key, whether there is a password
    call,       \* what the administrator's call does next
    calls,      \* the calls so far
    now,        \* the clock
    boots,      \* the starts so far
    promised,   \* history: what the settings may be after the calls so far
    unsynced,   \* history: an edit of the keys has failed since the last that did not
    issued,     \* history: when a token was issued, 0 for never
    ended       \* history: the tokens that were logged out or lost with the process

settingVars == <<cfg, file, callKeys, adminHash, promised, unsynced>>
sessionVars == <<sessions, login, issued, ended>>
worldVars == <<up, env, now, boots>>
accessVars == <<settingVars, sessionVars, worldVars, call, calls>>

None == "none"
Plain == "plain"    \* the hash of the environment's password, which nothing matches

ASSUME AccessAssumption ==
    /\ TTL \in Nat \ {0} /\ MaxTime \in Nat /\ MaxBoots \in Nat /\ MaxCalls \in Nat
    /\ Passwords \cap {None, Plain, "keep"} = {} /\ None \notin CallKeys
    /\ EnvKeys \subseteq CallKeys \cup {None}

Flags == {"on", "off"}
Hashes == Passwords \cup {None, Plain}

\* A hash is the password it was made of.  keys has, for every key, the enabled
\* flags of its entries in their order; entries of two keys never meet.
Settings == [keys : [CallKeys -> Seq(Flags)], hash : Hashes, require : Flags]
Default == [keys |-> [k \in CallKeys |-> <<>>], hash |-> None, require |-> "off"]

Allowed(keys) == {k \in CallKeys : \E i \in 1..Len(keys[k]) : keys[k][i] = "on"}
Admission(keys, k) == IF k \in Allowed(keys) THEN "on" ELSE "off"

\* What follows the first entry of a key is the environment's, which is enabled.
FirstOnly(settings) == \A k \in CallKeys : \A i \in 2..Len(settings.keys[k]) : settings.keys[k][i] = "on"

File == [kind : {"absent", "whole"}, data : Settings]
Absent == [kind |-> "absent", data |-> Default]
Whole(settings) == [kind |-> "whole", data |-> settings]

\* A file that is there was written by this program.
ASSUME InstalledAssumption ==
    \A settings \in Installed : settings \in Settings /\ FirstOnly(settings)

Environments == [key : EnvKeys, password : Flags]

\* The edits that calls ask for; a settings call may leave the password alone,
\* and a call of the keys may name a blank one.
SettingsEdits == [kind : {"settings"}, password : Passwords \cup {"keep"}, require : Flags]
KeyEdits == [kind : {"upsert"}, key : CallKeys, enabled : Flags]
            \cup [kind : {"delete"}, key : CallKeys, enabled : {"off"}]
Blank == [kind |-> "blank"]
Edits == SettingsEdits \cup KeyEdits \cup {Blank}
NoEdit == [kind |-> "none"]
Idle == [pc |-> "idle", edit |-> NoEdit]
Calls == [pc : {"edit", "save"}, edit : Edits]
         \cup [pc : {"sync"}, edit : KeyEdits \cup {Blank}] \cup {Idle}

----------------------------------------------------------------------------
(* What calls promise: the values that a key's admission, the password and  *)
(* the requirement may have.  A call under way, failed or cut off by a      *)
(* crash adds what it asks for; one that returns 200 leaves nothing else.   *)
(* A start adds what its environment asks for.                              *)

Promises == [keys : [CallKeys -> SUBSET Flags], hash : SUBSET Hashes, require : SUBSET Flags]

PromiseOf(settings) ==
    [keys |-> [k \in CallKeys |-> {Admission(settings.keys, k)}],
     hash |-> {settings.hash}, require |-> {settings.require}]

\* Disabling a key answers for its first entry, and so for the key only when
\* there is no other; enabling and deleting always answer for the key.
Decides(settings, edit) ==
    edit.kind = "delete" \/ edit.enabled = "on" \/ Len(settings.keys[edit.key]) <= 1

Maybe(promise, edit) ==
    CASE edit.kind = "settings" ->
            [keys |-> promise.keys,
             hash |-> promise.hash \cup (IF edit.password = "keep" THEN {} ELSE {edit.password}),
             require |-> promise.require \cup {edit.require}]
      [] edit.kind \in {"upsert", "delete"} ->
            [promise EXCEPT !.keys[edit.key] = @ \cup {edit.enabled}]
      [] edit.kind = "blank" -> promise

Surely(promise, edit) ==
    CASE edit.kind = "settings" ->
            [keys |-> promise.keys,
             hash |-> IF edit.password = "keep" THEN promise.hash ELSE {edit.password},
             require |-> {edit.require}]
      [] edit.kind \in {"upsert", "delete"} ->
            [promise EXCEPT !.keys[edit.key] = IF Decides(cfg, edit) THEN {edit.enabled} ELSE @]
      [] edit.kind = "blank" -> promise

\* A start asks for the environment's key, and for its password where none is set.
AtStart(promise) ==
    IF file.kind = "absent" THEN promise
    ELSE [keys |-> [k \in CallKeys |-> promise.keys[k] \cup (IF k = env.key THEN {"on"} ELSE {})],
          hash |-> promise.hash \cup (IF env.password = "on" /\ file.data.hash = None
                                      THEN {Plain} ELSE {}),
          require |-> promise.require]

----------------------------------------------------------------------------
\* Before the first start.
AccessInit ==
    /\ file \in {Absent} \cup {Whole(settings) : settings \in Installed}
    /\ cfg = Default /\ callKeys = {} /\ adminHash = None
    /\ promised = PromiseOf(file.data) /\ unsynced = FALSE
    /\ sessions = [tok \in Tokens |-> 0] /\ login = None
    /\ issued = [tok \in Tokens |-> 0] /\ ended = {}
    /\ up = FALSE /\ env \in Environments
    /\ call = Idle /\ calls = 0 /\ now = 1 /\ boots = 0

OverriddenAlways(settings) ==   \* mutant
    [keys |-> [k \in CallKeys |-> IF k = env.key THEN Append(settings.keys[k], "on")
                                  ELSE settings.keys[k]],
     hash |-> IF env.password = "on" THEN Plain ELSE settings.hash,
     require |-> settings.require]

\* The environment's password counts only where no hash is stored, and its key
\* is appended whether or not the file has it already.
Overridden(settings) ==
    [keys |-> [k \in CallKeys |-> IF k = env.key THEN Append(settings.keys[k], "on")
                                  ELSE settings.keys[k]],
     hash |-> IF env.password = "on" /\ settings.hash = None THEN Plain ELSE settings.hash,
     require |-> settings.require]

\* A missing file gives the defaults, and nothing overrides them.
Load == IF file.kind = "absent" THEN Default ELSE Overridden(file.data)

\* main, which is not in the repository, hands the loaded settings to the manager.
Boot ==
    /\ ~up /\ boots < MaxBoots
    /\ up' = TRUE /\ boots' = boots + 1
    /\ cfg' = Load /\ adminHash' = Load.hash /\ callKeys' = Allowed(Load.keys)
    /\ promised' = AtStart(promised)
    /\ UNCHANGED <<file, unsynced, sessionVars, env, now, call, calls>>

\* Memory is lost; the promises stay.  The next start may be in another environment.
Crash ==
    /\ up /\ up' = FALSE
    /\ cfg' = Default /\ callKeys' = {} /\ adminHash' = None /\ unsynced' = FALSE
    /\ ended' = ended \cup {tok \in Tokens : sessions[tok] # 0}
    /\ sessions' = [tok \in Tokens |-> 0] /\ login' = None /\ call' = Idle
    /\ env' \in Environments
    /\ UNCHANGED <<file, promised, issued, now, boots, calls>>

----------------------------------------------------------------------------
(* Sessions. *)

ValidAlways(tok) == sessions[tok] # 0   \* mutant: a token that has expired is taken

Valid(tok) == sessions[tok] # 0 /\ now <= sessions[tok]

\* Login checks the password in one critical section ...
Verify(password) ==
    /\ up /\ login = None
    /\ password = adminHash
    /\ login' = password
    /\ UNCHANGED <<settingVars, worldVars, call, calls, sessions, issued, ended>>

\* ... and adds the session in another.
Admit(tok) ==
    /\ login # None /\ issued[tok] = 0
    /\ sessions' = [sessions EXCEPT ![tok] = now + TTL]
    /\ issued' = [issued EXCEPT ![tok] = now]
    /\ login' = None
    /\ UNCHANGED <<settingVars, worldVars, call, calls, ended>>

\* A request with an expired token removes it.
Expire(tok) ==
    /\ sessions[tok] # 0 /\ ~Valid(tok)
    /\ sessions' = [sessions EXCEPT ![tok] = 0]
    /\ UNCHANGED <<settingVars, worldVars, call, calls, login, issued, ended>>

Logout(tok) ==
    /\ up /\ issued[tok] # 0
    /\ sessions' = [sessions EXCEPT ![tok] = 0]
    /\ ended' = ended \cup {tok}
    /\ UNCHANGED <<settingVars, worldVars, call, calls, login, issued>>

----------------------------------------------------------------------------
(* The calls. *)

\* Every call needs a session, but for the settings as long as there is no password.
Begin(edit) ==
    /\ up /\ call = Idle
    /\ \/ \E tok \in Tokens : Valid(tok)
       \/ edit.kind = "settings" /\ adminHash = None
    /\ call' = [pc |-> "edit", edit |-> edit]
    /\ promised' = Maybe(promised, edit)
    /\ calls < MaxCalls /\ calls' = calls + 1
    /\ UNCHANGED <<cfg, file, callKeys, adminHash, unsynced, sessionVars, worldVars>>

Fail ==
    /\ call' = Idle
    /\ unsynced' = (unsynced \/ call.edit.kind # "settings")
    /\ UNCHANGED promised

\* The requirement is changed before the password is hashed, which may fail.
EditSettings ==
    /\ call.pc = "edit" /\ call.edit.kind = "settings"
    /\ LET edit == call.edit
           hash == IF edit.password = "keep" THEN cfg.hash ELSE edit.password
       IN  \/ /\ cfg' = [keys |-> cfg.keys, hash |-> hash, require |-> edit.require]
              /\ adminHash' = IF edit.password = "keep" THEN adminHash ELSE hash
              /\ call' = [call EXCEPT !.pc = "save"]
              /\ UNCHANGED <<promised, unsynced>>
           \/ /\ edit.password # "keep"
              /\ cfg' = [keys |-> cfg.keys, hash |-> cfg.hash, require |-> edit.require]
              /\ Fail /\ UNCHANGED adminHash
    /\ UNCHANGED <<file, callKeys, sessionVars, worldVars, calls>>

\* The flags of a key after an edit.  Mutant: an existing entry stays as it is.
EditedAppending(flags, edit) ==
    CASE edit.kind = "delete" -> <<>>
      [] edit.kind = "upsert" /\ flags = <<>> -> <<edit.enabled>>
      [] OTHER -> Append(flags, edit.enabled)

Edited(flags, edit) ==
    CASE edit.kind = "delete" -> <<>>
      [] edit.kind = "upsert" /\ flags = <<>> -> <<edit.enabled>>
      [] OTHER -> [flags EXCEPT ![1] = edit.enabled]

WithKey(settings, edit) ==
    [keys |-> [settings.keys EXCEPT ![edit.key] = Edited(@, edit)],
     hash |-> settings.hash, require |-> settings.require]

EditKeys ==
    /\ call.pc = "edit" /\ call.edit.kind \in {"upsert", "delete"}
    /\ cfg' = WithKey(cfg, call.edit)
    /\ call' = [call EXCEPT !.pc = "save"]
    /\ UNCHANGED <<file, callKeys, adminHash, promised, unsynced, sessionVars, worldVars, calls>>

\* A blank key edits nothing; the rest of the call is the same.
EditBlank ==
    /\ call.pc = "edit" /\ call.edit.kind = "blank"
    /\ call' = [call EXCEPT !.pc = "save"]
    /\ UNCHANGED <<settingVars, sessionVars, worldVars, calls>>

Acknowledge == call' = Idle /\ promised' = Surely(promised, call.edit)

Save ==
    /\ call.pc = "save"
    /\ \/ /\ file' = Whole(cfg)
          /\ IF call.edit.kind = "settings"
             THEN Acknowledge
             ELSE call' = [call EXCEPT !.pc = "sync"] /\ UNCHANGED promised
          /\ UNCHANGED unsynced
       \/ Fail /\ UNCHANGED file
    /\ UNCHANGED <<cfg, callKeys, adminHash, sessionVars, worldVars, calls>>

SyncNewKeys ==  \* mutant: keys are added and never taken away
    /\ call.pc = "sync"
    /\ callKeys' = callKeys \cup Allowed(cfg.keys) /\ unsynced' = FALSE
    /\ Acknowledge
    /\ UNCHANGED <<cfg, file, adminHash, sessionVars, worldVars, calls>>

SyncKeys ==
    /\ call.pc = "sync"
    /\ callKeys' = Allowed(cfg.keys) /\ unsynced' = FALSE
    /\ Acknowledge
    /\ UNCHANGED <<cfg, file, adminHash, sessionVars, worldVars, calls>>

\* Other calls and the probes after an import save all settings.
SaveOther ==
    /\ up
    /\ file' = Whole(cfg)
    /\ UNCHANGED <<cfg, callKeys, adminHash, promised, unsynced, sessionVars, worldVars, call, calls>>

Tick ==
    /\ now < MaxTime /\ now' = now + 1
    /\ UNCHANGED <<settingVars, sessionVars, up, env, boots, call, calls>>

AccessNext ==
    \/ Boot \/ Crash
    \/ \E password \in Passwords : Verify(password)
    \/ \E tok \in Tokens : Admit(tok) \/ Expire(tok) \/ Logout(tok)
    \/ \E edit \in Edits : Begin(edit)
    \/ EditSettings \/ EditKeys \/ EditBlank \/ Save \/ SyncKeys
    \/ SaveOther
    \/ Tick

AccessSpec == AccessInit /\ [][AccessNext]_accessVars

----------------------------------------------------------------------------
(* Properties. *)

\* The types; and whatever calls and environments did, what follows a key's
\* first entry is the environment's, which no call disables alone (adminapi.go:466).
AccessTypeOK ==
    /\ cfg \in Settings /\ file \in File
    /\ FirstOnly(cfg) /\ FirstOnly(file.data)
    /\ callKeys \subseteq CallKeys /\ adminHash \in Hashes
    /\ sessions \in [Tokens -> Nat] /\ issued \in [Tokens -> Nat] /\ ended \subseteq Tokens
    /\ login \in Passwords \cup {None}
    /\ up \in BOOLEAN /\ env \in Environments
    /\ call \in Calls
    /\ now \in Nat /\ boots \in Nat /\ calls \in Nat
    /\ promised \in Promises /\ unsynced \in BOOLEAN

Fits(settings, promise) ==
    /\ \A k \in CallKeys : Admission(settings.keys, k) \in promise.keys[k]
    /\ settings.hash \in promise.hash
    /\ settings.require \in promise.require

\* adminapi.go:486-491: what a call answered with 200 holds, in the file for the
\* next start and in the manager that answers clients, until a later call or the
\* environment of a later start asks for something else; what failed or was cut
\* off happened or did not.  One answer promises nothing: that of disabling a key
\* of which there are several entries (Decides).
PromisesKept ==
    /\ Fits(file.data, promised)
    /\ up => /\ Fits(cfg, promised)
             /\ adminHash = cfg.hash
             /\ \A k \in CallKeys : (IF k \in callKeys THEN "on" ELSE "off") \in promised.keys[k]

\* adminapi.go:534: between calls the gate lets through exactly the enabled keys
\* of the settings, duplicates and the environment's included, unless an edit of
\* the keys has failed to be saved.
AllowListFollows ==
    up /\ call = Idle /\ ~unsynced => callKeys = Allowed(cfg.keys)

\* auth.go:106: a token admits its owner for SessionTTL at most, and never after a
\* logout or a restart, whatever is looked up, logged in or changed meanwhile.
SessionsEnd ==
    \A tok \in Tokens : Valid(tok) => tok \notin ended /\ now <= issued[tok] + TTL

=============================================================================
