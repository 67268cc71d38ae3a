------------------------------ MODULE IamUsers ------------------------------
(***************************************************************************)
(* The function that creates, converts and removes an Aurora cluster's IAM *)
(* database users (aurora/lambda/iam_database_users/index.py), and the     *)
(* Terraform resource that invokes it on every change of the user list.    *)
(*                                                                         *)
(* The function is a loop over users, each of them a few Data API calls.   *)
(* It can be cut off at any call; a call can take effect and report an     *)
(* error; a statement can be carried out after its call was given up; and  *)
(* people change accounts by hand meanwhile. Data API, the engines and     *)
(* Terraform are modelled by what the code relies on.                      *)
(***************************************************************************)
EXTENDS Naturals, Sequences, FiniteSets

CONSTANTS
  User,        \* database user names
  Names,       \* sorted(User)
  Engines,     \* the engines a cluster may have: "postgres", "mysql"
  Inputs,      \* the user lists tried: see Input
  HandLogins,  \* may an account made by hand log in: a subset of BOOLEAN
  NoInput,     \* Terraform's state holds no invocation
  NoCall,      \* the function is not running
  NoTask,      \* the function has not begun with a user
  MaxChanges,  \* bound: changes of the user list, and replacements
  MaxHands,    \* bound: changes made by hand
  MaxLate      \* bound: statements that outlive their call

ASSUME IamAssumption ==
  /\ {Names[i] : i \in DOMAIN Names} = User
  /\ \A i, j \in DOMAIN Names : Names[i] = Names[j] => i = j
  /\ Engines \subseteq {"postgres", "mysql"}
  /\ HandLogins \subseteq BOOLEAN
  /\ {MaxChanges, MaxHands, MaxLate} \subseteq Nat

OnRemove == {"revoke", "drop", "keep"}

\* var.iam_database_users: the listed users with their on_remove.
Input == UNION {[listed -> OnRemove] : listed \in SUBSET User}
Empty == [u \in {} |-> "keep"]

\* What Terraform hands the function: the input, and tf.action and
\* tf.prev_input.
Event == [action : {"create", "update", "delete"}, users : Input, prev : Input]

\* What the function does with one user.
Task == [user : User, op : {"ensure"} \cup OnRemove]

ASSUME InputsAssumption ==
  Inputs \subseteq Input /\ NoCall \notin Event /\ NoTask \notin Task

VARIABLES
  engine,    \* the engine of the cluster
  config,    \* the user list in the configuration
  applied,   \* the input in Terraform's state: prev_input of the next update
  call,      \* the event of the invocation in progress
  todo,      \* the tasks that are left for it
  task,      \* the task in hand
  script,    \* Data API calls the task has still to make
  account,   \* the engine's accounts
  late,      \* statements still being carried out for calls given up
  touched,   \* users something else changed during the invocation
  changes, hands

lambdaVars == <<call, todo, task, script>>
bounds     == <<changes, hands>>
vars == <<engine, config, applied, lambdaVars, account, late, touched, bounds>>

-----------------------------------------------------------------------------
(* The engine. An account logs in with a token if it holds rds_iam, or has  *)
(* the AWS plugin, and may log in at all.                                   *)

Account ==
  [exists : BOOLEAN,
   login  : BOOLEAN,    \* LOGIN; ACCOUNT UNLOCK
   token  : BOOLEAN,    \* member of rds_iam; AWSAuthenticationPlugin
   tls    : BOOLEAN,    \* REQUIRE SSL
   owns   : BOOLEAN]    \* owns objects or holds privileges

NoAccount == [exists |-> FALSE, login |-> FALSE, token |-> FALSE,
              tls |-> FALSE, owns |-> FALSE]
NewAccount(token) == [NoAccount EXCEPT !.exists = TRUE, !.login = TRUE,
                                       !.token = token]

CanLogIn(a) == a.exists /\ a.login /\ a.token

Tolerant == {"CREATE USER IF NOT EXISTS", "DROP USER IF EXISTS"}

Refused(statement, a) ==
  \/ statement = "CREATE ROLE" /\ a.exists
  \/ statement \notin Tolerant \cup {"CREATE ROLE"} /\ ~ a.exists
  \/ statement = "DROP ROLE" /\ a.owns

Effect(statement, a) ==
  CASE statement = "CREATE ROLE"                 -> NewAccount(FALSE)
    [] statement = "CREATE USER IF NOT EXISTS"   ->
         IF a.exists THEN a ELSE NewAccount(TRUE)
    [] statement \in {"GRANT", "CONVERT"}        -> [a EXCEPT !.token = TRUE]
    [] statement = "REVOKE"                      -> [a EXCEPT !.token = FALSE]
    [] statement = "REQUIRE SSL"                 -> [a EXCEPT !.tls = TRUE]
    [] statement = "REQUIRE SSL ACCOUNT UNLOCK"  ->
         [a EXCEPT !.tls = TRUE, !.login = TRUE]
    [] statement = "ACCOUNT LOCK"                -> [a EXCEPT !.login = FALSE]
    [] statement \in {"DROP ROLE", "DROP USER IF EXISTS"} -> NoAccount

-----------------------------------------------------------------------------
(* What the function does for one user. A task starts with a lookup, and    *)
(* what that finds decides the statements that follow.                      *)

Lookups == {"present", "has_rds_iam", "plugin"}

FirstLookup == IF engine = "postgres" THEN <<"present">> ELSE <<"plugin">>

\* (Slip: an account that exists is taken to be converted already.)
ensure_NoConvert(lookup, a) ==
  CASE lookup = "present" ->
         IF a.exists THEN <<>> ELSE <<"CREATE ROLE", "GRANT">>
    [] lookup = "plugin" ->
         IF ~ a.exists THEN <<"CREATE USER IF NOT EXISTS", "REQUIRE SSL">>
         ELSE <<"REQUIRE SSL ACCOUNT UNLOCK">>

\* Postgres.ensure and MySQL.ensure.
ensure(lookup, a) ==
  CASE lookup = "present" ->
         IF a.exists THEN <<"has_rds_iam">> ELSE <<"CREATE ROLE", "GRANT">>
    [] lookup = "has_rds_iam" ->
         IF a.token THEN <<>> ELSE <<"GRANT">>
    [] lookup = "plugin" ->
         IF ~ a.exists THEN <<"CREATE USER IF NOT EXISTS", "REQUIRE SSL">>
         ELSE IF ~ a.token THEN <<"CONVERT", "REQUIRE SSL">>
         ELSE <<"REQUIRE SSL ACCOUNT UNLOCK">>

\* (Slip: revoke and drop change places.)
remove_Swapped(on_remove, a) ==
  IF ~ a.exists THEN <<>>
  ELSE IF on_remove = "drop"
       THEN IF engine = "postgres" THEN <<"REVOKE">> ELSE <<"ACCOUNT LOCK">>
       ELSE IF engine = "postgres" THEN <<"DROP ROLE">>
                                   ELSE <<"DROP USER IF EXISTS">>

\* Postgres.remove and MySQL.remove, after their lookup.
remove(on_remove, a) ==
  IF ~ a.exists THEN <<>>
  ELSE IF on_remove = "revoke"
       THEN IF engine = "postgres" THEN <<"REVOKE">> ELSE <<"ACCOUNT LOCK">>
       ELSE IF engine = "postgres" THEN <<"DROP ROLE">>
                                   ELSE <<"DROP USER IF EXISTS">>

-----------------------------------------------------------------------------
(* handler(). *)

Wanted(event) == IF event.action = "delete" THEN Empty ELSE event.users

\* (Slip: a user that is still listed leaves if it was listed before.)
Leavers_All(event) ==
  IF event.action = "update" THEN DOMAIN event.prev
  ELSE IF event.action = "delete" THEN DOMAIN event.users ELSE {}

\* On update, who was in the last input and is not in this one; on delete, all.
Leavers(event) ==
  IF event.action = "update" THEN DOMAIN event.prev \ DOMAIN event.users
  ELSE IF event.action = "delete" THEN DOMAIN event.users ELSE {}

\* What a leaver's on_remove was when it was last applied.
LastSetting(event) == IF event.action = "update" THEN event.prev ELSE event.users

Tasks(event) ==
  {[user |-> u, op |-> "ensure"] : u \in DOMAIN Wanted(event)}
  \cup {[user |-> u, op |-> LastSetting(event)[u]] : u \in Leavers(event)}

Rank(u) == CHOOSE i \in DOMAIN Names : Names[i] = u

\* for name in sorted(wanted), then for name in sorted(leaving).
Before(s, t) ==
  IF (s.op = "ensure") = (t.op = "ensure") THEN Rank(s.user) < Rank(t.user)
                                           ELSE s.op = "ensure"

\* The task before has no call left to make; keep makes none at all.
NextUser ==
  /\ call # NoCall /\ script = <<>>
  /\ task' \in {t \in todo : \A s \in todo \ {t} : Before(t, s)}
  /\ todo' = todo \ {task'}
  /\ script' = IF task'.op = "keep" THEN <<>> ELSE FirstLookup
  /\ UNCHANGED <<engine, config, applied, call, account, late, touched, bounds>>

Lookup ==
  /\ script # <<>>
  /\ Head(script) \in Lookups
  /\ LET a == account[task.user] IN
       script' = IF task.op = "ensure" THEN ensure(Head(script), a)
                                       ELSE remove(task.op, a)
  /\ UNCHANGED <<engine, config, applied, call, todo, task, account, late, touched, bounds>>

AtStatement ==
  /\ script # <<>>
  /\ Head(script) \notin Lookups

\* The statement takes effect. If the answer is lost to one of RETRYABLE, it
\* is sent again.
Execute ==
  /\ AtStatement
  /\ ~ Refused(Head(script), account[task.user])
  /\ account' = [account EXCEPT ![task.user] = Effect(Head(script), @)]
  /\ script' \in {script, Tail(script)}
  /\ UNCHANGED <<engine, config, applied, call, todo, task, late, touched, bounds>>

\* (Slip: the list of tasks survives in a warm function.)
Returned_KeepsTodo ==
  /\ call' = NoCall
  /\ task' = NoTask
  /\ script' = <<>>
  /\ UNCHANGED todo

Returned ==
  /\ call' = NoCall
  /\ task' = NoTask
  /\ todo' = {} /\ script' = <<>>

\* The handler returns; Terraform records the input, or that it is gone.
Succeed ==
  /\ call # NoCall /\ script = <<>> /\ todo = {}
  /\ applied' = IF call.action = "delete" THEN NoInput ELSE call.users
  /\ Returned
  /\ touched' = {}
  /\ UNCHANGED <<engine, config, account, late, bounds>>

\* An error the function does not retry, the end of its patience, or the end
\* of its 300 seconds. Whether a failed update leaves the old input in
\* Terraform's state or the new one, the code does not say.
Fails ==
  /\ applied' \in {applied} \cup (IF call.action = "update" THEN {call.users} ELSE {})
  /\ Returned
  /\ touched' = {}
  /\ UNCHANGED <<engine, config, account, bounds>>

Fail ==
  /\ call # NoCall
  /\ Fails
  /\ UNCHANGED late

\* continueAfterTimeout: the call is given up, the statement is not.
FailAndContinue ==
  /\ AtStatement
  /\ Cardinality(late) < MaxLate
  /\ late' = late \cup {[user |-> task.user, statement |-> Head(script)]}
  /\ Fails

Lambda ==
  NextUser \/ Lookup \/ Execute \/ Succeed \/ Fail \/ FailAndContinue

-----------------------------------------------------------------------------
(* aws_lambda_invocation with lifecycle_scope = "CRUD". *)

Idle == call = NoCall

Invoke(event) ==
  /\ call' = event
  /\ todo' = Tasks(event)
  /\ UNCHANGED <<engine, applied, task, script, account, late, touched, hands>>

\* Somebody edits the list.
Configure ==
  /\ Idle /\ changes < MaxChanges
  /\ config' \in Inputs \ {config}
  /\ changes' = changes + 1
  /\ UNCHANGED <<engine, applied, lambdaVars, account, late, touched, hands>>

\* An apply with no change to the list does nothing.
Apply ==
  /\ Idle /\ applied # config
  /\ Invoke(IF applied = NoInput
            THEN [action |-> "create", users |-> config, prev |-> Empty]
            ELSE [action |-> "update", users |-> config, prev |-> applied])
  /\ UNCHANGED <<config, changes>>

\* terraform destroy, or -replace: the list stays as it is and the next apply
\* creates the invocation again.
Delete ==
  /\ Idle /\ applied # NoInput
  /\ changes < MaxChanges
  /\ changes' = changes + 1
  /\ config' \in {config, Empty}
  /\ Invoke([action |-> "delete", users |-> applied, prev |-> Empty])

-----------------------------------------------------------------------------
(* Everything else that changes accounts. *)

\* A change between two invocations is one the next of them sees.
Touch(u) == touched' = IF call = NoCall THEN {} ELSE touched \cup {u}

\* A statement whose call was given up ends, one way or the other.
LateStatement ==
  /\ \E s \in late :
       /\ late' = late \ {s}
       /\ Touch(s.user)
       /\ account' \in
            {account} \cup (IF Refused(s.statement, account[s.user]) THEN {} ELSE
              {[account EXCEPT ![s.user] = Effect(s.statement, @)]})
  /\ UNCHANGED <<engine, config, applied, lambdaVars, bounds>>

\* A password account is made, dropped, given objects or back its password.
ByHand ==
  /\ hands < MaxHands
  /\ hands' = hands + 1
  /\ \E u \in User :
       /\ Touch(u)
       /\ \E a \in IF account[u].exists
                   THEN {NoAccount, [account[u] EXCEPT !.owns = TRUE],
                         [account[u] EXCEPT !.token = FALSE]}
                   ELSE {[NewAccount(FALSE) EXCEPT !.login = l] : l \in HandLogins} :
            account' = [account EXCEPT ![u] = a]
  /\ UNCHANGED <<engine, config, applied, lambdaVars, late, changes>>

-----------------------------------------------------------------------------
Init ==
  /\ engine \in Engines
  /\ config \in Inputs
  /\ applied = NoInput
  /\ call = NoCall /\ todo = {} /\ task = NoTask /\ script = <<>>
  /\ account = [u \in User |-> NoAccount]
  /\ late = {} /\ touched = {}
  /\ changes = 0 /\ hands = 0

Next == Lambda \/ Configure \/ Apply \/ Delete \/ LateStatement \/ ByHand

Spec == Init /\ [][Next]_vars

-----------------------------------------------------------------------------
Statements ==
  {"CREATE ROLE", "GRANT", "REVOKE", "DROP ROLE", "CREATE USER IF NOT EXISTS",
   "REQUIRE SSL", "CONVERT", "REQUIRE SSL ACCOUNT UNLOCK", "ACCOUNT LOCK",
   "DROP USER IF EXISTS"}

\* Holds the shape of the loop too: nothing is left of an invocation that has
\* returned, and every task still to do is for a user of its event.
TypeOK ==
  /\ engine \in Engines
  /\ config \in Input
  /\ applied \in Input \cup {NoInput}
  /\ call \in Event \cup {NoCall}
  /\ todo \subseteq Task
  /\ task \in Task \cup {NoTask}
  /\ script \in Seq(Lookups \cup Statements)
  /\ account \in [User -> Account]
  /\ late \subseteq [user : User, statement : Statements]
  /\ touched \subseteq User
  /\ call = NoCall => todo = {} /\ task = NoTask /\ touched = {}
  /\ task = NoTask => script = <<>>

-----------------------------------------------------------------------------
\* When an apply succeeds, every listed user exists and has token login, over
\* TLS on MySQL, whatever earlier invocations left half done - unless somebody
\* else changed that account meanwhile.
AppliedUsersHaveTokens ==
  [][Succeed => \A u \in DOMAIN Wanted(call) \ touched :
       /\ account[u].exists /\ account[u].token
       /\ engine = "mysql" => account[u].tls]_vars

\* When an update or a delete succeeds, every user that left is as its last
\* applied on_remove says.
LeaversHaveLeft ==
  [][Succeed => \A u \in Leavers(call) \ touched :
       LET setting == LastSetting(call)[u] IN
         /\ setting = "drop" => ~ account[u].exists
         /\ setting = "revoke" => ~ CanLogIn(account[u])]_vars

\* The function takes token login from nobody but a user that has left the
\* list, or whose invocation is destroyed, and whose setting is not keep.
OnlyLeaversLoseLogin ==
  [][Lambda => \A u \in User :
       CanLogIn(account[u]) /\ ~ CanLogIn(account'[u]) =>
         /\ u \notin DOMAIN Wanted(call)
         /\ applied # NoInput /\ u \in DOMAIN applied
         /\ applied[u] # "keep"]_vars

-----------------------------------------------------------------------------
(* What the comments and README.md say, and the code does not do. *)

\* iam-database-users.tf:3: a user "exists in the engine after the apply that
\* declared it, and leaves it the way its on_remove says". Here, where nobody
\* creates accounts by hand and nobody is kept: after an update that succeeded
\* only listed users have token login.
UsersLeaveAsDeclared ==
  [][Succeed /\ call.action = "update" =>
       \A u \in User : CanLogIn(account[u]) => u \in DOMAIN call.users]_vars

\* index.py:171: "ACCOUNT UNLOCK on the next ensure reverses" the lock of a
\* MySQL user that was removed; README.md:495: a user "created by hand first is
\* adopted". After an apply, a listed user can log in with a token.
AppliedUsersCanLogIn ==
  [][Succeed => \A u \in DOMAIN Wanted(call) \ touched :
                  CanLogIn(account[u])]_vars
=============================================================================
