------------------------------- MODULE Digest -------------------------------
(***************************************************************************)
(* agent-warden: the daily digest.  CloudTrail events of the role and of   *)
(* others happen and become visible later; the function counts the role's  *)
(* events of the last 24 hours, page by page, from a Lake query or from    *)
(* LookupEvents with its time budget, and publishes the counts.            *)
(***************************************************************************)
EXTENDS Naturals, FiniteSets

CONSTANTS
  Event,       \* events of the account
  RoleEvents,  \* those of sessions that the role issued
  MaxErrors    \* asynchronous retries of a function, 2 in AWS

ASSUME DigestAssumption == RoleEvents \subseteq Event /\ MaxErrors \in Nat

VARIABLES
  lake,     \* whether digest_event_data_store_arn is set
  when,     \* per event: not yet happened, within the last 24 hours, or before
  visible,  \* the events CloudTrail shows
  scan,     \* the run of the function
  digest    \* the last digest published, and what the scan owed its readers

digestVars == <<lake, when, visible, scan, digest>>

Idle == [state |-> "idle", errors |-> 0]
NoDigest == [events |-> {}, truncated |-> FALSE, owed |-> {}, window |-> {}]
Window == {e \in Event : when[e] = "last24h"}

DigestInit ==
  /\ lake \in BOOLEAN
  /\ when = [e \in Event |-> "future"]
  /\ visible = {}
  /\ scan = Idle
  /\ digest = NoDigest

Happen(e) ==
  /\ when[e] = "future"
  /\ when' = [when EXCEPT ![e] = "last24h"]
  /\ UNCHANGED <<lake, visible, scan, digest>>

Deliver(e) ==
  /\ when[e] # "future" /\ e \notin visible
  /\ visible' = visible \cup {e}
  /\ UNCHANGED <<lake, when, scan, digest>>

\* A day passes, far longer than a run of the function.
Age ==
  /\ scan.state = "idle"
  /\ when' = [e \in Event |-> IF when[e] = "future" THEN "future" ELSE "before"]
  /\ UNCHANGED <<lake, visible, scan, digest>>

\* handler: the window ends now, also when a run that failed is retried.
Start ==
  /\ scan.state \in {"idle", "retry"}
  /\ scan' = [state |-> IF lake THEN "querying" ELSE "scanning", errors |-> scan.errors,
              window |-> Window, shown |-> Window \cap visible, fetched |-> {}, counted |-> {}, late |-> FALSE]
  /\ UNCHANGED <<lake, when, visible, digest>>

\* An exception, a Lake query that does not finish, or the function's timeout:
\* the run is retried, and given up without a word after the last retry.
Errored == IF scan.errors = MaxErrors THEN Idle ELSE [state |-> "retry", errors |-> scan.errors + 1]
Fail ==
  /\ scan.state \in {"querying", "scanning"}
  /\ scan' = Errored
  /\ UNCHANGED <<lake, when, visible, digest>>

QueryFinished ==
  /\ scan.state = "querying"
  /\ scan' = [scan EXCEPT !.state = "scanning"]
  /\ UNCHANGED <<lake, when, visible, digest>>

\* The 90 seconds of the LookupEvents path are over, as the clock shows when the
\* next page is there; that page is dropped.  Lake has no such budget.
TimePasses ==
  /\ scan.state = "scanning" /\ ~lake /\ ~scan.late
  /\ scan' = [scan EXCEPT !.late = TRUE]
  /\ UNCHANGED <<lake, when, visible, digest>>

\* Slip: the issuer of the session is not looked at.
Counted_Everyone(page) == page

\* Only events of sessions that the role issued count; Lake selects them itself.
Counted(page) == page \cap RoleEvents

\* The next page, maybe an empty one, and what of its events became visible
\* since.  The last page comes when no event shown at the start is missing.
\* Then the digest is published, and the run may still end in an error.
Page ==
  /\ scan.state = "scanning"
  /\ \E page \in SUBSET ((scan.window \cap visible) \ scan.fetched), last \in BOOLEAN :
       LET next == [scan EXCEPT !.fetched = @ \cup page,
                                !.counted = IF scan.late THEN @ ELSE @ \cup Counted(page)]
       IN /\ last => scan.shown \subseteq next.fetched
          /\ IF scan.late \/ last
               THEN /\ digest' = [events |-> next.counted, truncated |-> scan.late,
                                  owed |-> scan.shown \cap RoleEvents, window |-> scan.window]
                    /\ scan' \in {Idle, Errored}
               ELSE scan' = next /\ UNCHANGED digest
  /\ UNCHANGED <<lake, when, visible>>

DigestNext ==
  \/ \E e \in Event : Happen(e) \/ Deliver(e)
  \/ Age \/ Start \/ QueryFinished \/ TimePasses \/ Page \/ Fail

-----------------------------------------------------------------------------
DigestTypeOK ==
  /\ lake \in BOOLEAN
  /\ when \in [Event -> {"future", "last24h", "before"}]
  /\ visible \subseteq Event
  /\ scan \in {Idle} \cup [state : {"retry"}, errors : 1..MaxErrors]
       \cup [state : {"querying", "scanning"}, errors : 0..MaxErrors, window : SUBSET Event,
             shown : SUBSET Event, fetched : SUBSET Event, counted : SUBSET Event, late : BOOLEAN]
  /\ digest \in [events : SUBSET Event, truncated : BOOLEAN, owed : SUBSET Event,
               window : SUBSET Event]

\* "The digest says so rather than pretending the count is complete": a digest
\* counts only events of the role from its 24 hours, and without the warning all
\* of them that CloudTrail showed when the run (or the retry) began.
HonestDigest ==
  /\ digest.events \subseteq digest.window \cap RoleEvents
  /\ digest.truncated \/ digest.owed \subseteq digest.events
=============================================================================
