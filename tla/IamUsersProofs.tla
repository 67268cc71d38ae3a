--------------------------- MODULE IamUsersProofs ---------------------------
(***************************************************************************)
(* Theorems about IamUsers, for every set of users, every history of user  *)
(* lists and any number of failures, late statements and changes by hand.  *)
(*                                                                         *)
(* The invariant says what the function's place in its loop implies: which *)
(* calls a task can still have to make (TaskFits), that the event in hand  *)
(* was made from what is applied (CallFits), and how far each user has got *)
(* (Ensuring, Leaving). A user somebody else touched is left out of the    *)
(* last two, as it is of the properties.                                   *)
(***************************************************************************)
EXTENDS IamUsers, TLAPS

\* The calls an ensure task, and a revoke or drop task, can have to make.
EnsureScripts ==
  IF engine = "postgres"
  THEN {<<>>, <<"present">>, <<"has_rds_iam">>, <<"CREATE ROLE", "GRANT">>, <<"GRANT">>}
  ELSE {<<>>, <<"plugin">>, <<"CREATE USER IF NOT EXISTS", "REQUIRE SSL">>,
        <<"CONVERT", "REQUIRE SSL">>, <<"REQUIRE SSL">>,
        <<"REQUIRE SSL ACCOUNT UNLOCK">>}

RevokeScripts == {<<>>, FirstLookup, <<"REVOKE">>, <<"ACCOUNT LOCK">>}
DropScripts   == {<<>>, FirstLookup, <<"DROP ROLE">>, <<"DROP USER IF EXISTS">>}

\* A task of the event: a listed user to ensure, or a leaver with its setting.
Belongs(t) ==
  IF t.op = "ensure" THEN t.user \in DOMAIN Wanted(call)
  ELSE t.user \in Leavers(call) /\ t.op = LastSetting(call)[t.user]

TaskFits ==
  /\ \A t \in todo : Belongs(t)
  /\ task # NoTask =>
       /\ Belongs(task)
       /\ task.op = "ensure" => script \in EnsureScripts
       /\ task.op = "revoke" => script \in RevokeScripts
       /\ task.op = "drop"   => script \in DropScripts
       /\ task.op = "keep"   => script = <<>>

\* The event is made of Terraform's state, which stays as it is meanwhile.
CallFits ==
  call # NoCall =>
    /\ call.action = "update" => call.prev = applied /\ applied # NoInput
    /\ call.action = "delete" => call.users = applied /\ applied # NoInput

Ensured(a) == a.exists /\ a.token /\ (engine = "mysql" => a.tls)

\* The calls in s will make an account that is `a` an ensured one.
WillEnsure(s, a) ==
  /\ s # <<>>
  /\ s \in {<<"has_rds_iam">>, <<"GRANT">>} => a.exists
  /\ s = <<"CREATE USER IF NOT EXISTS", "REQUIRE SSL">> => ~ a.exists \/ a.token
  /\ s \in {<<"REQUIRE SSL">>, <<"REQUIRE SSL ACCOUNT UNLOCK">>} =>
       a.exists /\ a.token

Ensuring ==
  call # NoCall => \A u \in DOMAIN Wanted(call) \ touched :
    \/ [user |-> u, op |-> "ensure"] \in todo
    \/ task = [user |-> u, op |-> "ensure"] /\ WillEnsure(script, account[u])
    \/ Ensured(account[u])

HasLeft(a, setting) ==
  /\ setting = "drop" => ~ a.exists
  /\ setting = "revoke" => ~ CanLogIn(a)

Leaving ==
  call # NoCall => \A u \in Leavers(call) \ touched :
    LET t == [user |-> u, op |-> LastSetting(call)[u]] IN
      \/ t \in todo
      \/ task = t /\ script # <<>>
      \/ HasLeft(account[u], t.op)

IInv == TypeOK /\ TaskFits /\ CallFits /\ Ensuring /\ Leaving

-----------------------------------------------------------------------------
(* Events and their tasks. *)

LEMMA InputType ==
  ASSUME NEW list \in Input
  PROVE  /\ DOMAIN list \subseteq User
         /\ \A u \in DOMAIN list : list[u] \in OnRemove
  BY DEF Input

LEMMA EmptyIsInput == Empty \in Input /\ DOMAIN Empty = {}
<1>1. Empty \in [{} -> OnRemove]
  BY DEF Empty
<1>2. QED
  BY <1>1 DEF Input, Empty

\* A user is either listed or leaves, and a leaver was in an input.
LEMMA EventUsers ==
  ASSUME NEW event \in Event
  PROVE  /\ DOMAIN Wanted(event) \subseteq User
         /\ Leavers(event) \subseteq User
         /\ Leavers(event) \cap DOMAIN Wanted(event) = {}
         /\ \A u \in Leavers(event) : /\ u \in DOMAIN LastSetting(event)
                                      /\ LastSetting(event)[u] \in OnRemove
<1>1. event.users \in Input /\ event.prev \in Input
  BY DEF Event
<1>2. QED
  BY <1>1, InputType, EmptyIsInput DEF Wanted, Leavers, LastSetting

LEMMA EventTasks ==
  ASSUME NEW event \in Event
  PROVE  Tasks(event) \subseteq Task
<1>1. \A u \in DOMAIN Wanted(event) : [user |-> u, op |-> "ensure"] \in Task
  BY EventUsers DEF Task
<1>2. \A u \in Leavers(event) : [user |-> u, op |-> LastSetting(event)[u]] \in Task
  BY EventUsers DEF Task
<1>3. QED
  BY <1>1, <1>2 DEF Tasks

-----------------------------------------------------------------------------
(* The statements. *)

\* What each statement does, case by case.
LEMMA Effects ==
  ASSUME NEW a
  PROVE  /\ Effect("CREATE ROLE", a) = NewAccount(FALSE)
         /\ Effect("CREATE USER IF NOT EXISTS", a) =
              (IF a.exists THEN a ELSE NewAccount(TRUE))
         /\ Effect("GRANT", a) = [a EXCEPT !.token = TRUE]
         /\ Effect("CONVERT", a) = [a EXCEPT !.token = TRUE]
         /\ Effect("REVOKE", a) = [a EXCEPT !.token = FALSE]
         /\ Effect("REQUIRE SSL", a) = [a EXCEPT !.tls = TRUE]
         /\ Effect("REQUIRE SSL ACCOUNT UNLOCK", a) =
              [a EXCEPT !.tls = TRUE, !.login = TRUE]
         /\ Effect("ACCOUNT LOCK", a) = [a EXCEPT !.login = FALSE]
         /\ Effect("DROP ROLE", a) = NoAccount
         /\ Effect("DROP USER IF EXISTS", a) = NoAccount
  BY DEF Effect

LEMMA AccountsType ==
  /\ NoAccount \in Account
  /\ NewAccount(TRUE) \in Account /\ NewAccount(FALSE) \in Account
  /\ \A a \in Account : /\ [a EXCEPT !.token = TRUE] \in Account
                         /\ [a EXCEPT !.token = FALSE] \in Account
                         /\ [a EXCEPT !.tls = TRUE] \in Account
                         /\ [a EXCEPT !.login = FALSE] \in Account
                         /\ [a EXCEPT !.tls = TRUE, !.login = TRUE] \in Account
  BY DEF Account, NoAccount, NewAccount

LEMMA EffectType ==
  ASSUME NEW a \in Account, NEW s \in Statements
  PROVE  Effect(s, a) \in Account
<1>1. CASE s \in {"CREATE ROLE", "CREATE USER IF NOT EXISTS", "DROP ROLE",
                 "DROP USER IF EXISTS"}
  <2>1. Effect(s, a) \in {a, NoAccount, NewAccount(TRUE), NewAccount(FALSE)}
    BY <1>1, Effects
  <2>2. QED
    BY <2>1, AccountsType
<1>2. CASE s \in {"GRANT", "CONVERT", "REVOKE"}
  <2>1. Effect(s, a) \in {[a EXCEPT !.token = TRUE], [a EXCEPT !.token = FALSE]}
    BY <1>2, Effects
  <2>2. QED
    BY <2>1, AccountsType
<1>3. CASE s \in {"REQUIRE SSL", "REQUIRE SSL ACCOUNT UNLOCK", "ACCOUNT LOCK"}
  <2>1. Effect(s, a) \in {[a EXCEPT !.tls = TRUE], [a EXCEPT !.login = FALSE],
                          [a EXCEPT !.tls = TRUE, !.login = TRUE]}
    BY <1>3, Effects
  <2>2. QED
    BY <2>1, AccountsType
<1>4. QED
  BY <1>1, <1>2, <1>3 DEF Statements

EnsureStatements ==
  {"CREATE ROLE", "GRANT", "CREATE USER IF NOT EXISTS", "CONVERT", "REQUIRE SSL",
   "REQUIRE SSL ACCOUNT UNLOCK"}

\* An ensure task's statement leaves an ensured account ensured, and takes
\* token login from nobody.
LEMMA EnsureEffect ==
  ASSUME NEW a \in Account, NEW s \in EnsureStatements, ~ Refused(s, a)
  PROVE  /\ Ensured(a) => Ensured(Effect(s, a))
         /\ CanLogIn(a) => CanLogIn(Effect(s, a))
<1> USE Effects DEF Ensured, CanLogIn, Account, NewAccount, NoAccount, Refused, Tolerant
<1>1. CASE s = "CREATE ROLE"
  BY <1>1
<1>2. CASE s = "CREATE USER IF NOT EXISTS"
  BY <1>2
<1>3. CASE s \in {"GRANT", "CONVERT"}
  BY <1>3
<1>4. CASE s = "REQUIRE SSL"
  BY <1>4
<1>5. CASE s = "REQUIRE SSL ACCOUNT UNLOCK"
  BY <1>5
<1>6. QED
  BY <1>1, <1>2, <1>3, <1>4, <1>5 DEF EnsureStatements

LEMMA HeadTail ==
  ASSUME NEW x, NEW y
  PROVE  /\ Head(<<x>>) = x /\ Tail(<<x>>) = <<>>
         /\ Head(<<x, y>>) = x /\ Tail(<<x, y>>) = <<y>>
  OBVIOUS

\* The scripts of an ensure task that are at a statement: what it is, and
\* what is left when it is through.
LEMMA AtEnsureStatement ==
  ASSUME NEW s \in EnsureScripts, s # <<>>, Head(s) \notin Lookups
  PROVE  /\ Head(s) \in EnsureStatements
         /\ Tail(s) \in EnsureScripts
         /\ \/ s = <<"CREATE ROLE", "GRANT">> /\ engine = "postgres"
            \/ s = <<"GRANT">> /\ engine = "postgres"
            \/ s = <<"CREATE USER IF NOT EXISTS", "REQUIRE SSL">>
            \/ s = <<"CONVERT", "REQUIRE SSL">>
            \/ s = <<"REQUIRE SSL">>
            \/ s = <<"REQUIRE SSL ACCOUNT UNLOCK">>
<1> DEFINE Postgres == s \in {<<"CREATE ROLE", "GRANT">>, <<"GRANT">>}
           MySQL == s \in {<<"CREATE USER IF NOT EXISTS", "REQUIRE SSL">>,
                           <<"CONVERT", "REQUIRE SSL">>, <<"REQUIRE SSL">>,
                           <<"REQUIRE SSL ACCOUNT UNLOCK">>}
<1>1. CASE engine = "postgres"
  <2>1. Postgres
    BY <1>1, HeadTail DEF EnsureScripts, Lookups
  <2>2. Tail(s) \in {<<>>, <<"GRANT">>} /\ Head(s) \in {"CREATE ROLE", "GRANT"}
    <3>1. CASE s = <<"CREATE ROLE", "GRANT">>
      BY <3>1, HeadTail
    <3>2. CASE s = <<"GRANT">>
      BY <3>2, HeadTail
    <3>3. QED
      BY <2>1, <3>1, <3>2
  <2>3. QED
    BY <1>1, <2>1, <2>2 DEF EnsureScripts, EnsureStatements
<1>2. CASE engine # "postgres"
  <2>1. MySQL
    BY <1>2, HeadTail DEF EnsureScripts, Lookups
  <2>2. /\ Tail(s) \in {<<>>, <<"REQUIRE SSL">>}
        /\ Head(s) \in {"CREATE USER IF NOT EXISTS", "CONVERT", "REQUIRE SSL",
                        "REQUIRE SSL ACCOUNT UNLOCK"}
    <3>1. CASE s = <<"CREATE USER IF NOT EXISTS", "REQUIRE SSL">>
      BY <3>1, HeadTail
    <3>2. CASE s = <<"CONVERT", "REQUIRE SSL">>
      BY <3>2, HeadTail
    <3>3. CASE s = <<"REQUIRE SSL">>
      BY <3>3, HeadTail
    <3>4. CASE s = <<"REQUIRE SSL ACCOUNT UNLOCK">>
      BY <3>4, HeadTail
    <3>5. QED
      BY <2>1, <3>1, <3>2, <3>3, <3>4
  <2>3. QED
    BY <1>2, <2>1, <2>2 DEF EnsureScripts, EnsureStatements
<1>3. QED
  BY <1>1, <1>2

\* The statement brings the account on, also if it has to be sent again.
LEMMA EnsureProgress ==
  ASSUME NEW a \in Account, NEW s \in EnsureScripts, s # <<>>,
         Head(s) \notin Lookups, ~ Refused(Head(s), a), WillEnsure(s, a),
         NEW t \in {s, Tail(s)}
  PROVE  LET b == Effect(Head(s), a) IN WillEnsure(t, b) \/ Ensured(b)
<1> DEFINE b == Effect(Head(s), a)
<1>1. CASE s = <<"CREATE ROLE", "GRANT">>
  <2>1. Head(s) = "CREATE ROLE" /\ t \in {s, <<"GRANT">>}
    BY <1>1, HeadTail
  <2>2. b = NewAccount(FALSE)
    BY <2>1, Effects
  <2>3. b.exists
    BY <2>2 DEF NewAccount, NoAccount
  <2> HIDE DEF b
  <2>4. WillEnsure(s, b) /\ WillEnsure(<<"GRANT">>, b)
    BY <1>1, <2>3 DEF WillEnsure
  <2>5. QED
    BY <2>1, <2>4 DEF b
<1>2. CASE s = <<"GRANT">> /\ engine = "postgres"
  <2>1. Head(s) = "GRANT"
    BY <1>2, HeadTail
  <2>2. a.exists
    BY <1>2 DEF WillEnsure
  <2>3. b.exists /\ b.token
    BY <2>1, <2>2, Effects DEF Account
  <2>4. QED
    BY <1>2, <2>3 DEF Ensured
<1>3. CASE s = <<"CREATE USER IF NOT EXISTS", "REQUIRE SSL">>
  <2>1. Head(s) = "CREATE USER IF NOT EXISTS" /\ t \in {s, <<"REQUIRE SSL">>}
    BY <1>3, HeadTail
  <2>2. ~ a.exists \/ a.token
    BY <1>3 DEF WillEnsure
  <2>3. b = IF a.exists THEN a ELSE NewAccount(TRUE)
    BY <2>1, Effects
  <2>4. b.exists /\ b.token
    BY <2>2, <2>3 DEF NewAccount, NoAccount, Account
  <2> HIDE DEF b
  <2>5. WillEnsure(s, b) /\ WillEnsure(<<"REQUIRE SSL">>, b)
    BY <1>3, <2>4 DEF WillEnsure
  <2>6. QED
    BY <2>1, <2>5 DEF b
<1>4. CASE s = <<"CONVERT", "REQUIRE SSL">>
  <2>1. Head(s) = "CONVERT" /\ t \in {s, <<"REQUIRE SSL">>}
    BY <1>4, HeadTail
  <2>2. a.exists
    BY <2>1 DEF Refused, Tolerant
  <2>3. b.exists /\ b.token
    BY <2>1, <2>2, Effects DEF Account
  <2> HIDE DEF b
  <2>4. WillEnsure(s, b) /\ WillEnsure(<<"REQUIRE SSL">>, b)
    BY <1>4, <2>3 DEF WillEnsure
  <2>5. QED
    BY <2>1, <2>4 DEF b
<1>5. CASE s = <<"REQUIRE SSL">>
  <2>1. Head(s) = "REQUIRE SSL"
    BY <1>5, HeadTail
  <2>2. a.exists /\ a.token
    BY <1>5 DEF WillEnsure
  <2>3. b.exists /\ b.token /\ b.tls
    BY <2>1, <2>2, Effects DEF Account
  <2>4. QED
    BY <2>3 DEF Ensured
<1>6. CASE s = <<"REQUIRE SSL ACCOUNT UNLOCK">>
  <2>1. Head(s) = "REQUIRE SSL ACCOUNT UNLOCK"
    BY <1>6, HeadTail
  <2>2. a.exists /\ a.token
    BY <1>6 DEF WillEnsure
  <2>3. b.exists /\ b.token /\ b.tls
    BY <2>1, <2>2, Effects DEF Account
  <2>4. QED
    BY <2>3 DEF Ensured
<1>7. QED
  BY <1>1, <1>2, <1>3, <1>4, <1>5, <1>6, AtEnsureStatement

\* A leaver's statement makes it leave; it is the last one of its script.
LEMMA LeaveEffect ==
  ASSUME NEW a \in Account, NEW s, s # <<>>, Head(s) \notin Lookups, NEW op,
         \/ op = "revoke" /\ s \in RevokeScripts
         \/ op = "drop" /\ s \in DropScripts
  PROVE  HasLeft(Effect(Head(s), a), op) /\ Tail(s) = <<>>
<1>1. CASE op = "revoke" /\ s \in RevokeScripts
  <2>1. s \in {<<"REVOKE">>, <<"ACCOUNT LOCK">>}
    BY <1>1, HeadTail DEF RevokeScripts, FirstLookup, Lookups
  <2>2. Head(s) \in {"REVOKE", "ACCOUNT LOCK"} /\ Tail(s) = <<>>
    BY <2>1, HeadTail
  <2>3. Effect(Head(s), a) \in {[a EXCEPT !.token = FALSE], [a EXCEPT !.login = FALSE]}
    BY <2>2, Effects
  <2>4. \A b \in {[a EXCEPT !.token = FALSE], [a EXCEPT !.login = FALSE]} : ~ CanLogIn(b)
    BY DEF CanLogIn, Account
  <2>5. QED
    BY <1>1, <2>2, <2>3, <2>4 DEF HasLeft
<1>2. CASE op = "drop" /\ s \in DropScripts
  <2>1. s \in {<<"DROP ROLE">>, <<"DROP USER IF EXISTS">>}
    BY <1>2, HeadTail DEF DropScripts, FirstLookup, Lookups
  <2>2. Head(s) \in {"DROP ROLE", "DROP USER IF EXISTS"} /\ Tail(s) = <<>>
    BY <2>1, HeadTail
  <2>3. Effect(Head(s), a) = NoAccount
    BY <2>2, Effects
  <2>4. ~ NoAccount.exists
    BY DEF NoAccount
  <2>5. QED
    BY <1>2, <2>2, <2>3, <2>4 DEF HasLeft
<1>3. QED
  BY <1>1, <1>2

-----------------------------------------------------------------------------
(* The lookups. *)

LEMMA EnsureLookup ==
  ASSUME NEW a \in Account, NEW s \in EnsureScripts, s # <<>>,
         Head(s) \in Lookups
  PROVE  /\ ensure(Head(s), a) \in EnsureScripts
         /\ WillEnsure(s, a) => WillEnsure(ensure(Head(s), a), a) \/ Ensured(a)
<1> DEFINE t == ensure(Head(s), a)
<1>1. \/ s = <<"present">> /\ engine = "postgres"
      \/ s = <<"has_rds_iam">> /\ engine = "postgres"
      \/ s = <<"plugin">> /\ engine # "postgres"
  <2>1. /\ Head(<<"CREATE ROLE", "GRANT">>) = "CREATE ROLE" /\ Head(<<"GRANT">>) = "GRANT"
        /\ Head(<<"CREATE USER IF NOT EXISTS", "REQUIRE SSL">>) = "CREATE USER IF NOT EXISTS"
        /\ Head(<<"CONVERT", "REQUIRE SSL">>) = "CONVERT"
        /\ Head(<<"REQUIRE SSL">>) = "REQUIRE SSL"
        /\ Head(<<"REQUIRE SSL ACCOUNT UNLOCK">>) = "REQUIRE SSL ACCOUNT UNLOCK"
    BY HeadTail
  <2>2. CASE engine = "postgres"
    <3>1. s \in {<<>>, <<"present">>, <<"has_rds_iam">>, <<"CREATE ROLE", "GRANT">>, <<"GRANT">>}
      BY <2>2 DEF EnsureScripts
    <3>2. QED
      BY <2>1, <2>2, <3>1 DEF Lookups
  <2>3. CASE engine # "postgres"
    <3>1. s \in {<<>>, <<"plugin">>, <<"CREATE USER IF NOT EXISTS", "REQUIRE SSL">>,
                <<"CONVERT", "REQUIRE SSL">>, <<"REQUIRE SSL">>,
                <<"REQUIRE SSL ACCOUNT UNLOCK">>}
      BY <2>3 DEF EnsureScripts
    <3>2. QED
      BY <2>1, <2>3, <3>1 DEF Lookups
  <2>4. QED
    BY <2>2, <2>3
<1>2. CASE s = <<"present">> /\ engine = "postgres"
  <2>1. t = IF a.exists THEN <<"has_rds_iam">> ELSE <<"CREATE ROLE", "GRANT">>
    BY <1>2, HeadTail DEF ensure
  <2> HIDE DEF t
  <2>2. t \in EnsureScripts
    BY <1>2, <2>1 DEF EnsureScripts
  <2>3. a.exists => WillEnsure(t, a)
    BY <2>1 DEF WillEnsure
  <2>4. ~ a.exists => WillEnsure(t, a)
    BY <2>1 DEF WillEnsure
  <2>5. QED
    BY <2>2, <2>3, <2>4 DEF t
<1>3. CASE s = <<"has_rds_iam">> /\ engine = "postgres"
  <2>1. t = IF a.token THEN <<>> ELSE <<"GRANT">>
    BY <1>3, HeadTail DEF ensure
  <2> HIDE DEF t
  <2>2. t \in EnsureScripts
    BY <1>3, <2>1 DEF EnsureScripts
  <2>3. WillEnsure(s, a) => a.exists
    BY <1>3 DEF WillEnsure
  <2>4. a.exists /\ a.token => Ensured(a)
    BY <1>3 DEF Ensured
  <2>5. a.exists /\ ~ a.token => WillEnsure(t, a)
    BY <2>1 DEF WillEnsure
  <2>6. QED
    BY <2>2, <2>3, <2>4, <2>5 DEF t
<1>4. CASE s = <<"plugin">> /\ engine # "postgres"
  <2>1. t = IF ~ a.exists THEN <<"CREATE USER IF NOT EXISTS", "REQUIRE SSL">>
            ELSE IF ~ a.token THEN <<"CONVERT", "REQUIRE SSL">>
            ELSE <<"REQUIRE SSL ACCOUNT UNLOCK">>
    BY <1>4, HeadTail DEF ensure
  <2> HIDE DEF t
  <2>2. t \in EnsureScripts
    BY <1>4, <2>1 DEF EnsureScripts
  <2>3. ~ a.exists => WillEnsure(t, a)
    BY <2>1 DEF WillEnsure
  <2>4. a.exists /\ ~ a.token => WillEnsure(t, a)
    BY <2>1 DEF WillEnsure
  <2>5. a.exists /\ a.token => WillEnsure(t, a)
    BY <2>1 DEF WillEnsure
  <2>6. QED
    BY <2>2, <2>3, <2>4, <2>5 DEF t
<1>5. QED
  BY <1>1, <1>2, <1>3, <1>4

LEMMA LeaveLookup ==
  ASSUME NEW a \in Account, NEW op \in {"revoke", "drop"}
  PROVE  /\ op = "revoke" => remove(op, a) \in RevokeScripts
         /\ op = "drop" => remove(op, a) \in DropScripts
         /\ remove(op, a) = <<>> => HasLeft(a, op)
  BY DEF remove, RevokeScripts, DropScripts, HasLeft, CanLogIn, Account

\* Every script is one of calls.
LEMMA ScriptsType ==
  EnsureScripts \cup RevokeScripts \cup DropScripts \subseteq Seq(Lookups \cup Statements)
<1> DEFINE C == Lookups \cup Statements
<1>1. \A x \in C : <<x>> \in Seq(C)
  OBVIOUS
<1>2. \A x, y \in C : <<x, y>> \in Seq(C)
  OBVIOUS
<1>3. <<>> \in Seq(C)
  OBVIOUS
<1>4. {"present", "has_rds_iam", "plugin", "CREATE ROLE", "GRANT", "REVOKE", "DROP ROLE",
       "CREATE USER IF NOT EXISTS", "REQUIRE SSL", "CONVERT",
       "REQUIRE SSL ACCOUNT UNLOCK", "ACCOUNT LOCK", "DROP USER IF EXISTS"} \subseteq C
  BY DEF Lookups, Statements
<1> HIDE DEF C
<1>5. EnsureScripts \subseteq Seq(C)
  BY <1>1, <1>2, <1>3, <1>4 DEF EnsureScripts
<1>6. RevokeScripts \subseteq Seq(C) /\ DropScripts \subseteq Seq(C)
  BY <1>1, <1>3, <1>4 DEF RevokeScripts, DropScripts, FirstLookup
<1>7. QED
  BY <1>5, <1>6 DEF C

-----------------------------------------------------------------------------
(* The invariant. *)

LEMMA InitInv == Init => IInv
<1> SUFFICES ASSUME Init PROVE IInv
  OBVIOUS
<1>1. TypeOK
  BY InputsAssumption DEF Init, TypeOK, Account, NoAccount
<1>2. TaskFits /\ CallFits /\ Ensuring /\ Leaving
  BY DEF Init, TaskFits, CallFits, Ensuring, Leaving
<1>3. QED
  BY <1>1, <1>2 DEF IInv

LEMMA NextUserInv == IInv /\ NextUser => IInv'
<1> SUFFICES ASSUME IInv, NextUser PROVE IInv'
  OBVIOUS
<1>1. /\ call # NoCall /\ script = <<>>
      /\ task' \in todo /\ todo' = todo \ {task'}
      /\ script' = IF task'.op = "keep" THEN <<>> ELSE FirstLookup
      /\ UNCHANGED <<engine, config, applied, call, account, late, touched>>
  BY DEF NextUser
<1>2. task' \in Task /\ todo \subseteq Task /\ task' # NoTask
  BY <1>1, InputsAssumption DEF IInv, TypeOK
<1>3. /\ FirstLookup \in EnsureScripts /\ FirstLookup \in RevokeScripts
      /\ FirstLookup \in DropScripts /\ FirstLookup # <<>>
      /\ \A a : WillEnsure(FirstLookup, a)
  BY DEF FirstLookup, EnsureScripts, RevokeScripts, DropScripts, WillEnsure
<1>4. EnsureScripts' = EnsureScripts /\ RevokeScripts' = RevokeScripts /\ DropScripts' = DropScripts
  BY <1>1 DEF EnsureScripts, RevokeScripts, DropScripts, FirstLookup
<1>5. \A t : Belongs(t)' <=> Belongs(t)
  BY <1>1 DEF Belongs
<1>6. TypeOK'
  <2>1. script' \in Seq(Lookups \cup Statements)
    BY <1>1, <1>3, ScriptsType
  <2>2. QED
    BY <1>1, <1>2, <2>1 DEF IInv, TypeOK
<1>7. TaskFits'
  <2>1. \A t \in todo : Belongs(t)
    BY DEF IInv, TaskFits
  <2>2. \A t \in todo' \cup {task'} : Belongs(t)'
    BY <1>1, <1>5, <2>1
  <2>3. (task # NoTask => Belongs(task))'
    BY <1>1, <2>1 DEF Belongs
  <2>4. /\ task'.op = "ensure" => script' \in EnsureScripts
        /\ task'.op = "revoke" => script' \in RevokeScripts
        /\ task'.op = "drop" => script' \in DropScripts
        /\ task'.op = "keep" => script' = <<>>
    BY <1>1, <1>3
  <2>5. QED
    BY <1>4, <2>2, <2>3, <2>4 DEF TaskFits
<1>8. CallFits'
  BY <1>1 DEF IInv, CallFits
<1>9. Ensuring'
  <2> SUFFICES ASSUME NEW u \in DOMAIN Wanted(call) \ touched
               PROVE  \/ [user |-> u, op |-> "ensure"] \in todo'
                      \/ task' = [user |-> u, op |-> "ensure"] /\ WillEnsure(script', account[u])
                      \/ Ensured(account[u])
    BY <1>1 DEF Ensuring, Ensured, Wanted, WillEnsure
  <2>1. [user |-> u, op |-> "ensure"] \in todo \/ Ensured(account[u])
    BY <1>1 DEF IInv, Ensuring, WillEnsure
  <2>2. task' = [user |-> u, op |-> "ensure"] => WillEnsure(script', account[u])
    BY <1>1, <1>3
  <2>3. QED
    BY <1>1, <2>1, <2>2
<1>10. Leaving'
  <2> SUFFICES ASSUME NEW u \in Leavers(call) \ touched
               PROVE  LET t == [user |-> u, op |-> LastSetting(call)[u]] IN
                        t \in todo' \/ (task' = t /\ script' # <<>>) \/ HasLeft(account[u], t.op)
    BY <1>1 DEF Leaving, Leavers, LastSetting, HasLeft, CanLogIn
  <2> DEFINE t == [user |-> u, op |-> LastSetting(call)[u]]
  <2>1. t \in todo \/ HasLeft(account[u], t.op)
    BY <1>1 DEF IInv, Leaving
  <2>2. task' = t => script' # <<>> \/ t.op = "keep"
    BY <1>1, <1>3
  <2>3. t.op = "keep" => HasLeft(account[u], t.op)
    BY DEF HasLeft
  <2>4. QED
    BY <1>1, <2>1, <2>2, <2>3
<1>11. QED
  BY <1>6, <1>7, <1>8, <1>9, <1>10 DEF IInv

\* Steps inside a task: nothing but its script and its user's account changes.
InTask ==
  /\ call # NoCall /\ task # NoTask
  /\ UNCHANGED <<engine, config, applied, call, todo, task, late, touched>>
  /\ account' \in [User -> Account]
  /\ \A u \in User \ {task.user} : account'[u] = account[u]

\* Such a step keeps the invariant if it brings its own user on.
LEMMA InTaskInv ==
  ASSUME IInv, InTask,
         LET s == script'  b == account'[task.user] IN
           \/ /\ task.op = "ensure" /\ s \in EnsureScripts
              /\ WillEnsure(script, account[task.user]) \/ Ensured(account[task.user]) =>
                   WillEnsure(s, b) \/ Ensured(b)
           \/ /\ task.op = "revoke" /\ s \in RevokeScripts
              /\ s # <<>> \/ HasLeft(b, task.op)
           \/ /\ task.op = "drop" /\ s \in DropScripts
              /\ s # <<>> \/ HasLeft(b, task.op)
  PROVE  IInv'
<1> USE DEF InTask
<1>1. task \in Task /\ Belongs(task) /\ task.user \in User
  BY DEF IInv, TypeOK, TaskFits, Task
<1>2. call \in Event
  BY DEF IInv, TypeOK
<1>3. EnsureScripts' = EnsureScripts /\ RevokeScripts' = RevokeScripts /\ DropScripts' = DropScripts
  BY DEF EnsureScripts, RevokeScripts, DropScripts, FirstLookup
<1>4. \A t : Belongs(t)' <=> Belongs(t)
  BY DEF Belongs
<1>5. TypeOK'
  <2>1. script' \in Seq(Lookups \cup Statements)
    BY ScriptsType
  <2>2. QED
    BY <2>1 DEF IInv, TypeOK
<1>6. TaskFits'
  <2>1. (task # NoTask => Belongs(task))'
    BY <1>1 DEF Belongs
  <2>2. /\ task.op = "ensure" => script' \in EnsureScripts
        /\ task.op = "revoke" => script' \in RevokeScripts
        /\ task.op = "drop" => script' \in DropScripts
        /\ task.op = "keep" => script' = <<>>
    OBVIOUS
  <2>3. \A t \in todo : Belongs(t)
    BY DEF IInv, TaskFits
  <2>4. QED
    BY <1>3, <1>4, <2>1, <2>2, <2>3 DEF TaskFits
<1>7. CallFits'
  BY DEF IInv, CallFits
<1>8. Ensuring'
  <2> SUFFICES ASSUME NEW u \in DOMAIN Wanted(call) \ touched
               PROVE  \/ [user |-> u, op |-> "ensure"] \in todo
                      \/ task = [user |-> u, op |-> "ensure"] /\ WillEnsure(script', account'[u])
                      \/ Ensured(account'[u])
    BY DEF Ensuring, Ensured, Wanted, WillEnsure
  <2>1. u \in User /\ u \notin Leavers(call)
    BY <1>2, EventUsers
  <2>2. \/ [user |-> u, op |-> "ensure"] \in todo
        \/ task = [user |-> u, op |-> "ensure"] /\ WillEnsure(script, account[u])
        \/ Ensured(account[u])
    BY DEF IInv, Ensuring
  <2>3. CASE task.user # u
    <3>1. account'[u] = account[u] /\ task # [user |-> u, op |-> "ensure"]
      BY <2>1, <2>3
    <3>2. QED
      BY <2>2, <3>1
  <2>4. CASE task.user = u
    <3>1. task.op = "ensure"
      BY <1>1, <2>1, <2>4 DEF Belongs
    <3>2. task = [user |-> u, op |-> "ensure"]
      BY <1>1, <2>4, <3>1 DEF Task
    <3>3. QED
      BY <2>2, <2>4, <3>1, <3>2
  <2>5. QED
    BY <2>3, <2>4
<1>9. Leaving'
  <2> SUFFICES ASSUME NEW u \in Leavers(call) \ touched
               PROVE  LET t == [user |-> u, op |-> LastSetting(call)[u]] IN
                        t \in todo \/ (task = t /\ script' # <<>>) \/ HasLeft(account'[u], t.op)
    BY DEF Leaving, Leavers, LastSetting, HasLeft, CanLogIn
  <2> DEFINE t == [user |-> u, op |-> LastSetting(call)[u]]
  <2>1. u \in User /\ u \notin DOMAIN Wanted(call)
    BY <1>2, EventUsers
  <2>2. t \in todo \/ (task = t /\ script # <<>>) \/ HasLeft(account[u], t.op)
    BY DEF IInv, Leaving
  <2>3. CASE task.user # u
    <3>1. account'[u] = account[u] /\ task # t
      BY <2>1, <2>3
    <3>2. QED
      BY <2>2, <3>1
  <2>4. CASE task.user = u
    <3>1. task.op # "ensure" /\ task.op = t.op
      BY <1>1, <2>1, <2>4 DEF Belongs
    <3>2. task = t
      BY <1>1, <2>4, <3>1 DEF Task
    <3>3. QED
      BY <2>4, <3>1, <3>2
  <2>5. QED
    BY <2>3, <2>4
<1>10. QED
  BY <1>5, <1>6, <1>7, <1>8, <1>9 DEF IInv

\* A task that has a call to make is in the course of an invocation.
LEMMA AtWork ==
  ASSUME IInv, script # <<>>
  PROVE  /\ call # NoCall /\ call \in Event
         /\ task # NoTask /\ task \in Task /\ task.user \in User
         /\ account[task.user] \in Account
         /\ engine \in {"postgres", "mysql"}
         /\ task.op # "keep"
         /\ task.op \in {"ensure", "revoke", "drop"}
  BY IamAssumption DEF IInv, TypeOK, TaskFits, Task, OnRemove

LEMMA LookupInv == IInv /\ Lookup => IInv'
<1> SUFFICES ASSUME IInv, Lookup PROVE IInv'
  OBVIOUS
<1> DEFINE a == account[task.user]
<1>1. /\ script # <<>> /\ Head(script) \in Lookups
      /\ script' = IF task.op = "ensure" THEN ensure(Head(script), a) ELSE remove(task.op, a)
      /\ UNCHANGED <<engine, config, applied, call, todo, task, account, late, touched>>
  BY DEF Lookup
<1>2. a \in Account /\ task # NoTask /\ call # NoCall /\ account' = account
  BY <1>1, AtWork
<1>3. InTask
  BY <1>1, <1>2 DEF InTask, IInv, TypeOK
<1>4. CASE task.op = "ensure"
  <2>1. script \in EnsureScripts /\ script' = ensure(Head(script), a)
    BY <1>1, <1>2, <1>4 DEF IInv, TaskFits
  <2>2. /\ script' \in EnsureScripts
        /\ WillEnsure(script, a) => WillEnsure(script', a) \/ Ensured(a)
    BY <1>1, <1>2, <2>1, EnsureLookup
  <2>3. QED
    BY <1>2, <1>3, <1>4, <2>2, InTaskInv
<1>5. CASE task.op \in {"revoke", "drop"}
  <2>1. script' = remove(task.op, a)
    BY <1>1, <1>5
  <2>2. /\ task.op = "revoke" => script' \in RevokeScripts
        /\ task.op = "drop" => script' \in DropScripts
        /\ script' # <<>> \/ HasLeft(a, task.op)
    BY <1>2, <1>5, <2>1, LeaveLookup
  <2>3. QED
    BY <1>2, <1>3, <1>5, <2>2, InTaskInv
<1>6. QED
  BY <1>1, <1>4, <1>5, AtWork

LEMMA ExecuteInv == IInv /\ Execute => IInv'
<1> SUFFICES ASSUME IInv, Execute PROVE IInv'
  OBVIOUS
<1> DEFINE a == account[task.user]
           b == Effect(Head(script), a)
<1>1. /\ script # <<>> /\ Head(script) \notin Lookups /\ ~ Refused(Head(script), a)
      /\ account' = [account EXCEPT ![task.user] = b]
      /\ script' \in {script, Tail(script)}
      /\ UNCHANGED <<engine, config, applied, call, todo, task, late, touched>>
  BY DEF Execute, AtStatement
<1>2. /\ a \in Account /\ task # NoTask /\ call # NoCall /\ task.user \in User
      /\ account \in [User -> Account]
  BY <1>1, AtWork DEF IInv, TypeOK
<1>3. Head(script) \in Statements
  <2>1. script \in Seq(Lookups \cup Statements) /\ script # <<>>
    BY <1>1 DEF IInv, TypeOK
  <2>2. Head(script) \in Lookups \cup Statements
    BY <2>1
  <2>3. QED
    BY <1>1, <2>2
<1>4. b \in Account
  BY <1>2, <1>3, EffectType
<1> HIDE DEF b
<1>5. account'[task.user] = b /\ InTask
  BY <1>1, <1>2, <1>4 DEF InTask
<1>6. CASE task.op = "ensure"
  <2>1. script \in EnsureScripts
    BY <1>2, <1>6 DEF IInv, TaskFits
  <2>2. Head(script) \in EnsureStatements /\ Tail(script) \in EnsureScripts
    BY <1>1, <2>1, AtEnsureStatement
  <2>3. Ensured(a) => Ensured(b)
    BY <1>1, <1>2, <2>2, EnsureEffect DEF b
  <2>4. WillEnsure(script, a) => WillEnsure(script', b) \/ Ensured(b)
    BY <1>1, <1>2, <2>1, EnsureProgress DEF b
  <2>5. script' \in EnsureScripts
    BY <1>1, <2>1, <2>2
  <2>6. QED
    BY <1>5, <1>6, <2>3, <2>4, <2>5, InTaskInv
<1>7. CASE task.op \in {"revoke", "drop"}
  <2>1. \/ task.op = "revoke" /\ script \in RevokeScripts
        \/ task.op = "drop" /\ script \in DropScripts
    BY <1>2, <1>7 DEF IInv, TaskFits
  <2>2. HasLeft(b, task.op) /\ Tail(script) = <<>>
    BY <1>1, <1>2, <2>1, LeaveEffect DEF b
  <2>3. <<>> \in RevokeScripts /\ <<>> \in DropScripts
    BY DEF RevokeScripts, DropScripts
  <2>4. QED
    BY <1>1, <1>5, <1>7, <2>1, <2>2, <2>3, InTaskInv
<1>8. QED
  BY <1>1, <1>6, <1>7, AtWork

\* When an invocation is over, nothing of it is left to speak about.
LEMMA ReturnedInv ==
  ASSUME IInv, call # NoCall, Returned, touched' = {},
         applied' \in Input \cup {NoInput},
         late' \subseteq [user : User, statement : Statements],
         UNCHANGED <<engine, config, account>>
  PROVE  IInv'
<1> USE DEF Returned
<1>1. TypeOK'
  BY DEF IInv, TypeOK
<1>2. TaskFits' /\ CallFits' /\ Ensuring' /\ Leaving'
  BY DEF TaskFits, CallFits, Ensuring, Leaving
<1>3. QED
  BY <1>1, <1>2 DEF IInv

LEMMA EndInv == IInv /\ (Succeed \/ Fail \/ FailAndContinue) => IInv'
<1> SUFFICES ASSUME IInv, Succeed \/ Fail \/ FailAndContinue PROVE IInv'
  OBVIOUS
<1>1. late \subseteq [user : User, statement : Statements] /\ applied \in Input \cup {NoInput}
  BY DEF IInv, TypeOK
<1>2. call # NoCall => call.users \in Input
  BY DEF IInv, TypeOK, Event
<1>3. CASE Succeed
  BY <1>1, <1>2, <1>3, ReturnedInv DEF Succeed
<1>4. CASE Fail
  BY <1>1, <1>2, <1>4, ReturnedInv DEF Fail, Fails
<1>5. CASE FailAndContinue
  <2>1. script # <<>> /\ Head(script) \notin Lookups
    BY <1>5 DEF FailAndContinue, AtStatement
  <2>2. call # NoCall /\ task.user \in User
    BY <2>1, AtWork
  <2>3. Head(script) \in Statements
    <3>1. script \in Seq(Lookups \cup Statements)
      BY DEF IInv, TypeOK
    <3>2. Head(script) \in Lookups \cup Statements
      BY <2>1, <3>1
    <3>3. QED
      BY <2>1, <3>2
  <2>4. late' \subseteq [user : User, statement : Statements]
    BY <1>1, <1>5, <2>2, <2>3 DEF FailAndContinue
  <2>5. QED
    BY <1>1, <1>2, <1>5, <2>2, <2>4, ReturnedInv DEF FailAndContinue, Fails
<1>6. QED
  BY <1>3, <1>4, <1>5

LEMMA ConfigureInv == IInv /\ Configure => IInv'
<1> SUFFICES ASSUME IInv, Configure PROVE IInv'
  OBVIOUS
<1>1. /\ call = NoCall /\ call' = NoCall /\ config' \in Inputs
      /\ UNCHANGED <<engine, applied, todo, task, script, account, late, touched>>
  BY DEF Configure, Idle, lambdaVars
<1>2. TypeOK'
  BY <1>1, InputsAssumption DEF IInv, TypeOK
<1>3. TaskFits'
  BY <1>1 DEF IInv, TypeOK, TaskFits
<1>4. CallFits' /\ Ensuring' /\ Leaving'
  BY <1>1 DEF CallFits, Ensuring, Leaving
<1>5. QED
  BY <1>2, <1>3, <1>4 DEF IInv

\* An invocation starts with a task for every user it is about.
LEMMA InvokeInv ==
  ASSUME IInv, Idle, NEW event \in Event, Invoke(event), config' \in Input,
         event.action = "update" => event.prev = applied /\ applied # NoInput,
         event.action = "delete" => event.users = applied /\ applied # NoInput
  PROVE  IInv'
<1>1. /\ call = NoCall /\ call' = event /\ todo' = Tasks(event)
      /\ task = NoTask /\ task' = NoTask /\ script = <<>> /\ touched' = {}
      /\ UNCHANGED <<engine, applied, script, account, late>>
  BY DEF Idle, Invoke, IInv, TypeOK
<1>2. event # NoCall
  BY InputsAssumption
<1>3. TypeOK'
  BY <1>1, <1>2, EventTasks DEF IInv, TypeOK
<1>4. \A t \in Tasks(event) :
        IF t.op = "ensure" THEN t.user \in DOMAIN Wanted(event)
        ELSE t.user \in Leavers(event) /\ t.op = LastSetting(event)[t.user]
  <2>1. \A u \in Leavers(event) : LastSetting(event)[u] # "ensure"
    BY EventUsers DEF OnRemove
  <2>2. QED
    BY <2>1 DEF Tasks
<1>5. TaskFits'
  BY <1>1, <1>4 DEF TaskFits, Belongs, Wanted, Leavers, LastSetting
<1>6. CallFits'
  BY <1>1 DEF CallFits
<1>7. Ensuring'
  <2>1. \A u \in DOMAIN Wanted(event) : [user |-> u, op |-> "ensure"] \in Tasks(event)
    BY DEF Tasks
  <2>2. QED
    BY <1>1, <2>1 DEF Ensuring, Wanted
<1>8. Leaving'
  <2>1. \A u \in Leavers(event) :
          [user |-> u, op |-> LastSetting(event)[u]] \in Tasks(event)
    BY DEF Tasks
  <2>2. QED
    BY <1>1, <2>1 DEF Leaving, Leavers, LastSetting
<1>9. QED
  BY <1>3, <1>5, <1>6, <1>7, <1>8 DEF IInv

LEMMA ApplyInv == IInv /\ Apply => IInv'
<1> SUFFICES ASSUME IInv, Apply PROVE IInv'
  OBVIOUS
<1>1. config \in Input /\ applied \in Input \cup {NoInput} /\ Empty \in Input
  BY EmptyIsInput DEF IInv, TypeOK
<1>2. Idle /\ config' = config
  BY DEF Apply
<1>3. CASE applied = NoInput
  <2> DEFINE e == [action |-> "create", users |-> config, prev |-> Empty]
  <2>1. e \in Event /\ Invoke(e)
    BY <1>1, <1>3 DEF Apply, Event
  <2>2. QED
    BY <1>1, <1>2, <2>1, InvokeInv
<1>4. CASE applied # NoInput
  <2> DEFINE e == [action |-> "update", users |-> config, prev |-> applied]
  <2>1. e \in Event /\ Invoke(e)
    BY <1>1, <1>4 DEF Apply, Event
  <2>2. QED
    BY <1>1, <1>2, <1>4, <2>1, InvokeInv
<1>5. QED
  BY <1>3, <1>4

LEMMA DeleteInv == IInv /\ Delete => IInv'
<1> SUFFICES ASSUME IInv, Delete PROVE IInv'
  OBVIOUS
<1> DEFINE e == [action |-> "delete", users |-> applied, prev |-> Empty]
<1>1. config \in Input /\ applied \in Input /\ applied # NoInput /\ Empty \in Input
  BY EmptyIsInput DEF IInv, TypeOK, Delete
<1>2. Idle /\ config' \in Input /\ Invoke(e)
  BY <1>1 DEF Delete
<1>3. e \in Event
  BY <1>1 DEF Event
<1>4. QED
  BY <1>1, <1>2, <1>3, InvokeInv

\* What others do to a user's account disturbs no other user.
LEMMA TouchInv ==
  ASSUME IInv, NEW v \in User, Touch(v),
         account' \in [User -> Account],
         \A u \in User \ {v} : account'[u] = account[u],
         late' \subseteq [user : User, statement : Statements],
         UNCHANGED <<engine, config, applied, call, todo, task, script>>
  PROVE  IInv'
<1>1. TypeOK'
  BY DEF IInv, TypeOK, Touch
<1>2. TaskFits' /\ CallFits'
  BY DEF IInv, TaskFits, CallFits, Belongs, EnsureScripts, RevokeScripts,
     DropScripts, FirstLookup
<1>3. call # NoCall => touched' = touched \cup {v} /\ call \in Event
  BY DEF Touch, IInv, TypeOK
<1>4. Ensuring'
  <2> SUFFICES ASSUME call # NoCall, NEW u \in DOMAIN Wanted(call) \ touched'
               PROVE  \/ [user |-> u, op |-> "ensure"] \in todo
                      \/ task = [user |-> u, op |-> "ensure"] /\ WillEnsure(script, account'[u])
                      \/ Ensured(account'[u])
    BY DEF Ensuring, Ensured, Wanted, WillEnsure
  <2>1. u \in User /\ u # v /\ u \notin touched
    BY <1>3, EventUsers
  <2>2. account'[u] = account[u]
    BY <2>1
  <2>3. QED
    BY <2>1, <2>2 DEF IInv, Ensuring
<1>5. Leaving'
  <2> SUFFICES ASSUME call # NoCall, NEW u \in Leavers(call) \ touched'
               PROVE  LET t == [user |-> u, op |-> LastSetting(call)[u]] IN
                        t \in todo \/ (task = t /\ script # <<>>) \/ HasLeft(account'[u], t.op)
    BY DEF Leaving, Leavers, LastSetting, HasLeft, CanLogIn
  <2>1. u \in User /\ u # v /\ u \notin touched
    BY <1>3, EventUsers
  <2>2. account'[u] = account[u]
    BY <2>1
  <2>3. QED
    BY <2>1, <2>2 DEF IInv, Leaving
<1>6. QED
  BY <1>1, <1>2, <1>4, <1>5 DEF IInv

LEMMA LateStatementInv == IInv /\ LateStatement => IInv'
<1> SUFFICES ASSUME IInv, LateStatement PROVE IInv'
  OBVIOUS
<1>1. PICK s \in late :
        /\ late' = late \ {s} /\ Touch(s.user)
        /\ account' \in
             {account} \cup (IF Refused(s.statement, account[s.user]) THEN {} ELSE
               {[account EXCEPT ![s.user] = Effect(s.statement, @)]})
  BY DEF LateStatement
<1>2. /\ s.user \in User /\ s.statement \in Statements
      /\ late' \subseteq [user : User, statement : Statements]
      /\ account \in [User -> Account]
  BY <1>1 DEF IInv, TypeOK
<1>3. Effect(s.statement, account[s.user]) \in Account
  BY <1>2, EffectType
<1>4. /\ account' \in [User -> Account]
      /\ \A u \in User \ {s.user} : account'[u] = account[u]
  BY <1>1, <1>2, <1>3
<1>5. UNCHANGED <<engine, config, applied, call, todo, task, script>>
  BY DEF LateStatement, lambdaVars
<1>6. QED
  BY <1>1, <1>2, <1>4, <1>5, TouchInv

LEMMA ByHandInv == IInv /\ ByHand => IInv'
<1> SUFFICES ASSUME IInv, ByHand PROVE IInv'
  OBVIOUS
<1>1. PICK u \in User :
        /\ Touch(u)
        /\ \E a \in IF account[u].exists
                    THEN {NoAccount, [account[u] EXCEPT !.owns = TRUE],
                          [account[u] EXCEPT !.token = FALSE]}
                    ELSE {[NewAccount(FALSE) EXCEPT !.login = l] : l \in HandLogins} :
             account' = [account EXCEPT ![u] = a]
  BY DEF ByHand
<1>2. account \in [User -> Account] /\ account[u] \in Account
  BY DEF IInv, TypeOK
<1>3. /\ NoAccount \in Account
      /\ [account[u] EXCEPT !.owns = TRUE] \in Account
      /\ [account[u] EXCEPT !.token = FALSE] \in Account
      /\ \A l \in HandLogins : [NewAccount(FALSE) EXCEPT !.login = l] \in Account
  BY <1>2, IamAssumption DEF Account, NoAccount, NewAccount
<1>4. PICK a \in Account : account' = [account EXCEPT ![u] = a]
  BY <1>1, <1>3
<1>5. account' \in [User -> Account] /\ \A v \in User \ {u} : account'[v] = account[v]
  BY <1>2, <1>4
<1>6. /\ UNCHANGED <<engine, config, applied, call, todo, task, script>>
      /\ late' \subseteq [user : User, statement : Statements]
  BY DEF ByHand, lambdaVars, IInv, TypeOK
<1>7. QED
  BY <1>1, <1>5, <1>6, TouchInv

LEMMA NextInv == IInv /\ [Next]_vars => IInv'
<1> SUFFICES ASSUME IInv, [Next]_vars PROVE IInv'
  OBVIOUS
<1>1. CASE Lambda
  BY <1>1, NextUserInv, LookupInv, ExecuteInv, EndInv DEF Lambda
<1>2. CASE Configure \/ Apply \/ Delete
  BY <1>2, ConfigureInv, ApplyInv, DeleteInv
<1>3. CASE LateStatement \/ ByHand
  BY <1>3, LateStatementInv, ByHandInv
<1>4. CASE UNCHANGED vars
  BY <1>4 DEF vars, lambdaVars, IInv, TypeOK, TaskFits, CallFits, Ensuring, Leaving,
     Belongs, EnsureScripts, RevokeScripts, DropScripts, FirstLookup, Ensured,
     WillEnsure, HasLeft, CanLogIn, Wanted, Leavers, LastSetting
<1>5. QED
  BY <1>1, <1>2, <1>3, <1>4 DEF Next

\* What a place in the function's loop implies of accounts and of what is left
\* to do, after any history.
THEOREM Invariance == Spec => []IInv
  BY InitInv, NextInv, PTL DEF Spec

-----------------------------------------------------------------------------
(* What the invariant gives. *)

\* Every variable keeps its type, and of an invocation that has returned or was
\* cut off nothing is left in the function.
THEOREM TypeCorrect == Spec => []TypeOK
<1>1. IInv => TypeOK
  BY DEF IInv
<1>2. QED
  BY <1>1, Invariance, PTL

\* A handler that returns leaves each user it was given, and nobody else
\* touched, with token login, over TLS on MySQL: whatever the accounts were.
THEOREM TokensApplied == Spec => AppliedUsersHaveTokens
<1> DEFINE P == Succeed => \A u \in DOMAIN Wanted(call) \ touched :
                  /\ account[u].exists /\ account[u].token
                  /\ engine = "mysql" => account[u].tls
<1>1. IInv /\ [Next]_vars => [P]_vars
  <2> SUFFICES ASSUME IInv, Succeed, NEW u \in DOMAIN Wanted(call) \ touched
               PROVE  Ensured(account[u])
    BY DEF Ensured
  <2>1. call # NoCall /\ script = <<>> /\ todo = {}
    BY DEF Succeed
  <2>2. QED
    BY <2>1 DEF IInv, Ensuring, WillEnsure
<1>2. QED
  BY <1>1, Invariance, PTL DEF Spec, AppliedUsersHaveTokens

\* It leaves each user that left the list as the on_remove says that was last
\* applied.
THEOREM LeaversLeft == Spec => LeaversHaveLeft
<1> DEFINE P == Succeed => \A u \in Leavers(call) \ touched :
                  LET setting == LastSetting(call)[u] IN
                    /\ setting = "drop" => ~ account[u].exists
                    /\ setting = "revoke" => ~ CanLogIn(account[u])
<1>1. IInv /\ [Next]_vars => [P]_vars
  <2> SUFFICES ASSUME IInv, Succeed, NEW u \in Leavers(call) \ touched
               PROVE  HasLeft(account[u], LastSetting(call)[u])
    BY DEF HasLeft
  <2>1. call # NoCall /\ script = <<>> /\ todo = {}
    BY DEF Succeed
  <2>2. QED
    BY <2>1 DEF IInv, Leaving
<1>2. QED
  BY <1>1, Invariance, PTL DEF Spec, LeaversHaveLeft

\* No step of the function takes token login from a user that stays: only
\* Execute changes an account, and a call that takes login away belongs to the
\* task of a leaver, whose setting Terraform's state still holds.
THEOREM OnlyLeaversLose == Spec => OnlyLeaversLoseLogin
<1> DEFINE Loses(u) == CanLogIn(account[u]) /\ ~ CanLogIn(account'[u])
           P == Lambda => \A u \in User :
                  Loses(u) => /\ u \notin DOMAIN Wanted(call)
                              /\ applied # NoInput /\ u \in DOMAIN applied
                              /\ applied[u] # "keep"
<1>1. IInv /\ [Next]_vars => [P]_vars
  <2> SUFFICES ASSUME IInv, Lambda, NEW u \in User, Loses(u)
               PROVE  /\ u \notin DOMAIN Wanted(call)
                      /\ applied # NoInput /\ u \in DOMAIN applied
                      /\ applied[u] # "keep"
    OBVIOUS
  <2>1. Execute
    BY DEF Lambda, NextUser, Lookup, Succeed, Fail, FailAndContinue, Fails
  <2> DEFINE a == account[task.user]
             b == Effect(Head(script), a)
  <2>2. /\ script # <<>> /\ Head(script) \notin Lookups /\ ~ Refused(Head(script), a)
        /\ account' = [account EXCEPT ![task.user] = b]
    BY <2>1 DEF Execute, AtStatement
  <2>3. /\ call # NoCall /\ call \in Event /\ a \in Account
        /\ task # NoTask /\ task.op \in {"ensure", "revoke", "drop"}
        /\ account \in [User -> Account]
    BY <2>2, AtWork DEF IInv, TypeOK
  <2> HIDE DEF b
  <2>4. u = task.user /\ account'[u] = b
    BY <2>2, <2>3
  <2> USE DEF b
  <2>5. task.op # "ensure"
    <3> SUFFICES ASSUME task.op = "ensure" PROVE FALSE
      OBVIOUS
    <3>1. script \in EnsureScripts
      BY <2>3 DEF IInv, TaskFits
    <3>2. Head(script) \in EnsureStatements
      BY <2>2, <3>1, AtEnsureStatement
    <3>3. CanLogIn(a) => CanLogIn(b)
      BY <2>2, <2>3, <3>2, EnsureEffect
    <3>4. QED
      BY <2>4, <3>3
  <2>6. u \in Leavers(call) /\ task.op = LastSetting(call)[u]
    BY <2>3, <2>4, <2>5 DEF IInv, TaskFits, Belongs
  <2>7. applied # NoInput /\ u \in DOMAIN applied /\ applied[u] = task.op
    BY <2>3, <2>6 DEF IInv, CallFits, Leavers, LastSetting
  <2>8. u \notin DOMAIN Wanted(call)
    BY <2>3, <2>6, EventUsers
  <2>9. QED
    BY <2>3, <2>7, <2>8
<1>2. QED
  BY <1>1, Invariance, PTL DEF Spec, OnlyLeaversLoseLogin
=============================================================================
