-------------------------- MODULE TestEnvironments --------------------------
(***************************************************************************)
(* Test environments of one doc and branch: the transactions of the        *)
(* service, statement by statement under READ COMMITTED with their row     *)
(* locks, and the modal in which several people edit environments.  A      *)
(* variable's value is write-only: the modal shows that there is one, and  *)
(* a save that does not type a new one keeps the old.                      *)
(*                                                                         *)
(* Sources: backend test-workflows/test-environments.service.ts; frontend  *)
(* features/test-workflow-editor/ui/environments-modal.tsx.                *)
(***************************************************************************)
EXTENDS Integers, FiniteSets

CONSTANTS Envs,        \* environments that may be created
          Keys,        \* variable names
          Values,      \* values that may be typed
          EnvTabs,     \* browser tabs with the page
          EnvCalls,    \* calls under way at a time
          NoTab, NoEnv,
          MaxSaves     \* bound: calls that are ever sent

ASSUME EnvAssumption == MaxSaves \in Nat /\ NoTab \notin EnvTabs /\ NoEnv \notin Envs

VARIABLES envRow,     \* committed rows of the environments and of their variables
          envCall,    \* the calls under way
          envPage,    \* the page of each tab: its list of environments and the modal
          typed,      \* the value last typed for each variable
          saves       \* calls sent so far

envVars == <<envRow, envCall, envPage, typed, saves>>

Stored == Values \union {"absent", "empty"}
NoEnvRow == [state |-> "none", isDefault |-> FALSE, value |-> [k \in Keys |-> "absent"]]
LiveEnv(e) == envRow[e].state = "live"
StoredKeys(e) == {k \in Keys : envRow[e].value[k] # "absent"}

\* What a save says of a variable: nothing, remove, keep the value, or a value.
Changes == Values \union {"none", "remove", "touch"}

\* A list of environments shows the names of their variables only.
NotListed == [listed |-> FALSE, keys |-> {}]
Lists == [Envs -> [listed : BOOLEAN, keys : SUBSET Keys]]

NoEnvCall == [pc |-> "idle", kind |-> "update", env |-> NoEnv, makeDefault |-> FALSE,
              change |-> [k \in Keys |-> "none"], saw |-> {}, locked |-> {},
              read |-> [k \in Keys |-> "absent"], tab |-> NoTab, mounted |-> TRUE, list |-> [e \in Envs |-> NotListed]]
EnvCalling(c, pc) == envCall[c].pc = pc
Locked(c, e) == \E d \in EnvCalls \ {c} : e \in envCall[d].locked
------------------------------------------------------------------------------
(***************************************************************************)
(* The service.                                                            *)
(***************************************************************************)
\* requireEnvironment, before the transaction: 404 for one that was deleted.
RequireEnvironment(c) ==
    /\ EnvCalling(c, "require")
    /\ envCall' = [envCall EXCEPT ![c].pc =
            IF ~LiveEnv(envCall[c].env) THEN "refused"
            ELSE IF envCall[c].kind = "delete" THEN "delete"
            ELSE IF envCall[c].makeDefault THEN "clear" ELSE "write"]
    /\ UNCHANGED <<envRow, envPage, typed, saves>>

\* UPDATE ... SET isDefault = false: the statement's snapshot says which rows it is about.
ClearDefaults(c) ==
    /\ EnvCalling(c, "clear")
    /\ envCall' = [envCall EXCEPT ![c].pc = "clearing",
                       ![c].saw = {e \in Envs \ {envCall[c].env} : LiveEnv(e) /\ envRow[e].isDefault}]
    /\ UNCHANGED <<envRow, envPage, typed, saves>>

\* It waits for rows that others have locked, and looks at each again.
DefaultsCleared(c) ==
    /\ EnvCalling(c, "clearing")
    /\ \A e \in envCall[c].saw : ~Locked(c, e)
    /\ envCall' = [envCall EXCEPT ![c].pc = "write",
                       ![c].locked = {e \in envCall[c].saw : LiveEnv(e) /\ envRow[e].isDefault}]
    /\ UNCHANGED <<envRow, envPage, typed, saves>>

\* Mutant: the environment's row is not written, and so not locked, before its variables.
WriteEnvironmentLast(c) ==
    /\ EnvCalling(c, "write")
    /\ envCall' = [envCall EXCEPT ![c].pc = "variables"]
    /\ UNCHANGED <<envRow, envPage, typed, saves>>

\* INSERT, or UPDATE by id, of the environment; its row is locked until the end.
WriteEnvironment(c) ==
    /\ EnvCalling(c, "write") /\ ~Locked(c, envCall[c].env)
    /\ envCall' = [envCall EXCEPT ![c].pc = "variables", ![c].locked = @ \union {envCall[c].env}]
    /\ UNCHANGED <<envRow, envPage, typed, saves>>

\* SELECT of the variables that the body names.
ReadVariables(c) ==
    /\ EnvCalling(c, "variables")
    /\ envCall' = [envCall EXCEPT ![c].pc = "commit", ![c].read = envRow[envCall[c].env].value]
    /\ UNCHANGED <<envRow, envPage, typed, saves>>

\* A value that was not given is written back as it was read.
Changed(change, old) ==
    CASE change = "none" -> old
      [] change = "remove" -> "absent"
      [] change = "touch" -> IF old = "absent" THEN "empty" ELSE old
      [] OTHER -> change

\* Variables written, COMMIT: the rows cleared and the environment appear at once.
CommitEnvironment(c) ==
    /\ EnvCalling(c, "commit")
    /\ LET x == envCall[c]
           Value(k) == IF x.change[k] = "none" THEN envRow[x.env].value[k] ELSE Changed(x.change[k], x.read[k]) IN
       /\ envRow' = [e \in Envs |->
             IF e = x.env THEN [state |-> IF x.kind = "create" THEN "live" ELSE envRow[e].state,
                                isDefault |-> x.makeDefault, value |-> [k \in Keys |-> Value(k)]]
             ELSE IF e \in x.locked THEN [envRow[e] EXCEPT !.isDefault = FALSE] ELSE envRow[e]]
       /\ typed' = [typed EXCEPT ![x.env] = [k \in Keys |-> Changed(x.change[k], @[k])]]
    /\ envCall' = [envCall EXCEPT ![c].pc = "readBack", ![c].locked = {}]
    /\ UNCHANGED <<envPage, saves>>

\* The answer: the environment as it is by now, put into the list of the page.
GetEnvironmentById(c) ==
    /\ EnvCalling(c, "readBack")
    /\ envCall' = [envCall EXCEPT ![c].pc = "answer",
                       ![c].list[envCall[c].env] = [listed |-> TRUE, keys |-> StoredKeys(envCall[c].env)]]
    /\ UNCHANGED <<envRow, envPage, typed, saves>>

\* A soft delete in one statement.
DeleteEnvironment(c) ==
    /\ EnvCalling(c, "delete") /\ ~Locked(c, envCall[c].env)
    /\ envRow' = [envRow EXCEPT ![envCall[c].env].state = "deleted"]
    /\ envCall' = [envCall EXCEPT ![c].pc = "answer", ![c].list[envCall[c].env] = NotListed]
    /\ UNCHANGED <<envPage, typed, saves>>

\* A name in use, a deadlock or a lost connection: ROLLBACK, an error is shown.
EnvCallFails(c) ==
    /\ envCall[c].pc \in {"clear", "clearing", "write", "variables", "commit", "delete"}
    /\ envCall' = [envCall EXCEPT ![c].pc = "refused", ![c].locked = {}]
    /\ UNCHANGED <<envRow, envPage, typed, saves>>
------------------------------------------------------------------------------
(***************************************************************************)
(* The page and its modal.                                                 *)
(***************************************************************************)
\* The page is loaded with the environments there are.
LoadTestsPage(t) ==
    /\ envPage' = [envPage EXCEPT ![t] =
            [loaded |-> TRUE, open |-> FALSE, saving |-> FALSE,
             list |-> [e \in Envs |-> IF LiveEnv(e) THEN [listed |-> TRUE, keys |-> StoredKeys(e)] ELSE NotListed]]]
    /\ envCall' = [c \in EnvCalls |->
                       IF envCall[c].tab = t THEN [envCall[c] EXCEPT !.tab = NoTab, !.mounted = FALSE] ELSE envCall[c]]
    /\ UNCHANGED <<envRow, typed, saves>>

\* The modal is opened anew, or closed by its cross, while it saves too.
OpenModal(t) ==
    /\ envPage[t].loaded
    /\ envPage' = [envPage EXCEPT ![t].open = ~@, ![t].saving = FALSE]
    /\ envCall' = [c \in EnvCalls |->
                       IF envCall[c].tab = t THEN [envCall[c] EXCEPT !.mounted = FALSE] ELSE envCall[c]]
    /\ UNCHANGED <<envRow, typed, saves>>

\* A variable of the form that is stored is kept, given a value, removed, or its key is typed over.
HandleVariableChange == Values \union {"touch", "none"}
HandleRemoveVariable == {"remove"}

\* One that is not was left out, added with a value, or typed over the key of another, without one.
HandleAddVariable == Values \union {"touch", "none"}
VariablesPayload(keys) ==
    {change \in [Keys -> Changes] : \A k \in Keys :
        IF k \in keys THEN change[k] \in HandleVariableChange \union HandleRemoveVariable
        ELSE change[k] \in HandleAddVariable}

SendSave(t, c, call) ==
    /\ EnvCalling(c, "idle") /\ saves < MaxSaves
    /\ envPage[t].open /\ ~envPage[t].saving
    /\ saves' = saves + 1
    /\ envCall' = [envCall EXCEPT ![c] = [call EXCEPT !.tab = t, !.list = envPage[t].list]]
    /\ envPage' = [envPage EXCEPT ![t].saving = TRUE]
    /\ UNCHANGED <<envRow, typed>>

\* A create clears the other defaults and needs no environment to exist.
HandleCreateEnv(t, c, e) ==
    /\ envRow[e].state = "none" /\ \A d \in EnvCalls : envCall[d].env # e
    /\ \E change \in VariablesPayload({}), makeDefault \in BOOLEAN :
          SendSave(t, c, [NoEnvCall EXCEPT !.kind = "create", !.env = e, !.makeDefault = makeDefault, !.change = change,
                                           !.pc = IF makeDefault THEN "clear" ELSE "write"])

HandleSave(t, c, e) ==
    /\ envPage[t].list[e].listed
    /\ \E change \in VariablesPayload(envPage[t].list[e].keys), makeDefault \in BOOLEAN :
          SendSave(t, c, [NoEnvCall EXCEPT !.env = e, !.makeDefault = makeDefault, !.change = change, !.pc = "require"])

HandleDeleteEnv(t, c, e) ==
    /\ envPage[t].list[e].listed
    /\ SendSave(t, c, [NoEnvCall EXCEPT !.kind = "delete", !.env = e, !.pc = "require"])

(* The answer changes the list the modal had when it was asked, whatever the page's list has
   become, and whether or not the modal is still open. *)
EnvAnswered(c) ==
    /\ envCall[c].pc \in {"answer", "refused"}
    /\ LET t == envCall[c].tab IN
       envPage' = IF t = NoTab THEN envPage
                  ELSE [envPage EXCEPT ![t].saving = @ /\ ~envCall[c].mounted,
                            ![t].list = IF EnvCalling(c, "answer") THEN envCall[c].list ELSE @]
    /\ envCall' = [envCall EXCEPT ![c] = NoEnvCall]
    /\ UNCHANGED <<envRow, typed, saves>>
------------------------------------------------------------------------------
\* Environments that were made before, of which no two are the default.
EnvInit ==
    /\ \E made \in SUBSET Envs, default \in Envs, value \in [Keys -> Values \union {"absent"}] :
          envRow = [e \in Envs |-> IF e \in made THEN [state |-> "live", isDefault |-> e = default, value |-> value]
                                  ELSE NoEnvRow]
    /\ envCall = [c \in EnvCalls |-> NoEnvCall]
    /\ envPage = [t \in EnvTabs |-> [loaded |-> FALSE, open |-> FALSE, saving |-> FALSE, list |-> NoEnvCall.list]]
    /\ typed = [e \in Envs |-> envRow[e].value]
    /\ saves = 0

EnvService(c) ==
    \/ RequireEnvironment(c) \/ ClearDefaults(c) \/ DefaultsCleared(c) \/ WriteEnvironment(c)
    \/ ReadVariables(c) \/ CommitEnvironment(c) \/ GetEnvironmentById(c) \/ DeleteEnvironment(c) \/ EnvCallFails(c)

EnvModal(t, c) == \E e \in Envs : HandleCreateEnv(t, c, e) \/ HandleSave(t, c, e) \/ HandleDeleteEnv(t, c, e)

EnvNext ==
    \/ \E c \in EnvCalls : EnvService(c) \/ EnvAnswered(c) \/ \E t \in EnvTabs : EnvModal(t, c)
    \/ \E t \in EnvTabs : LoadTestsPage(t) \/ OpenModal(t)

EnvSpec == EnvInit /\ [][EnvNext]_envVars
------------------------------------------------------------------------------
(* Every variable stays in its range. *)
EnvTypeOK ==
    /\ envRow \in [Envs -> [state : {"none", "live", "deleted"}, isDefault : BOOLEAN, value : [Keys -> Stored]]]
    /\ \A c \in EnvCalls : /\ envCall[c].env \in Envs \union {NoEnv} /\ envCall[c].change \in [Keys -> Changes]
                            /\ envCall[c].locked \subseteq Envs /\ envCall[c].list \in Lists
    /\ envPage \in [EnvTabs -> [loaded : BOOLEAN, open : BOOLEAN, saving : BOOLEAN, list : Lists]]
    /\ typed \in [Envs -> [Keys -> Stored]] /\ saves \in 0..MaxSaves

(* The value of a variable is the last one that was typed, however saves that keep it, remove
   it or replace it overlap: the environment's row is written, and so locked, before its
   variables are read and written back (test-environments.service.ts:176-203). *)
ValuesAreTheLastTyped == \A e \in Envs : envRow[e].value = typed[e]
=============================================================================
