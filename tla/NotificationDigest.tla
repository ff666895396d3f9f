--------------------------- MODULE NotificationDigest ---------------------------
(***************************************************************************)
(* What one user is notified of within the application, and the digests    *)
(* that two cron jobs mail of it: a job reads the user's frequency, then    *)
(* what was created within its period and is unread, mails it, records the  *)
(* digest, and marks what it mailed as read.  (The e-mail is EmailDelivery's.) *)
(***************************************************************************)
EXTENDS Naturals, FiniteSets

CONSTANTS
  Notes,        \* notifications
  Frequencies,  \* digest_frequency as the user may choose it
  Day,          \* hours of a day
  Cap,          \* notifications in a digest
  Runs,         \* runs of the jobs that can be under way at once
  Changes,      \* whether the user changes the frequency and reads by himself
  Prompt,       \* whether the jobs run in every hour, after what happens in it
  MaxCuts,      \* bound: how often a statement fails or a process dies
  MaxTime       \* bound: hours

DigestAssumption ==
  /\ Frequencies \subseteq {"IMMEDIATE", "HOURLY", "DAILY", "WEEKLY"} /\ Frequencies # {}
  /\ IsFiniteSet(Notes) /\ IsFiniteSet(Runs) /\ {Day, Cap, MaxTime} \subseteq Nat \ {0} /\ MaxCuts \in Nat
  /\ {Changes, Prompt} \subseteq BOOLEAN

VARIABLES
  now,
  freq,      \* notification_preferences.digest_frequency
  created,   \* per notification: created_at; 0: not created
  isRead,    \* notifications.is_read
  mailed,    \* per notification: digests that were mailed with it
  digests,   \* notification_digests: sets of notifications
  run,       \* per run: [at, kind, cutoff, list]
  ran,       \* jobs that have been run this hour
  cuts,      \* how often something failed
  cut        \* history: runs that were cut off after they had mailed

vars == <<now, freq, created, isRead, mailed, digests, run, ran, cuts, cut>>

Kinds   == {"HOURLY", "DAILY"}
Idle    == [at |-> "idle", kind |-> "HOURLY", cutoff |-> 0, list |-> {}]
Window(k) == IF k = "HOURLY" THEN 1 ELSE Day

TypeOK ==
  /\ now \in 1 .. MaxTime /\ freq \in Frequencies /\ created \in [Notes -> 0 .. MaxTime]
  /\ isRead \in [Notes -> BOOLEAN] /\ mailed \in [Notes -> Nat] /\ digests \subseteq SUBSET Notes
  /\ run \in [Runs -> [at: {"idle", "read", "mail", "record", "mark"}, kind: Kinds,
                       cutoff: 0 .. MaxTime, list: SUBSET Notes]]
  /\ ran \subseteq Kinds /\ cuts \in 0 .. MaxCuts /\ cut \in 0 .. cuts

Init ==
  /\ now = 1 /\ freq \in Frequencies /\ created = [n \in Notes |-> 0]
  /\ isRead = [n \in Notes |-> FALSE] /\ mailed = [n \in Notes |-> 0] /\ digests = {}
  /\ run = [r \in Runs |-> Idle] /\ ran = {} /\ cuts = 0 /\ cut = 0

-----------------------------------------------------------------------------
Create(n) ==
  /\ created[n] = 0 /\ (Prompt => ran = {} /\ \A r \in Runs : run[r].at = "idle")
  /\ created' = [created EXCEPT ![n] = now]
  /\ UNCHANGED <<now, freq, isRead, mailed, digests, run, ran, cuts, cut>>

ReadOne(n) ==
  /\ Changes /\ created[n] > 0 /\ ~isRead[n] /\ isRead' = [isRead EXCEPT ![n] = TRUE]
  /\ UNCHANGED <<now, freq, created, mailed, digests, run, ran, cuts, cut>>

markAllRead ==
  /\ Changes /\ isRead' = [n \in Notes |-> isRead[n] \/ created[n] > 0] /\ isRead' # isRead
  /\ UNCHANGED <<now, freq, created, mailed, digests, run, ran, cuts, cut>>

updateDigestFrequency(f) ==
  /\ Changes /\ f # freq /\ freq' = f
  /\ UNCHANGED <<now, created, isRead, mailed, digests, run, ran, cuts, cut>>

Tick ==
  /\ now < MaxTime /\ (Prompt => ran = Kinds /\ \A r \in Runs : run[r].at = "idle")
  /\ now' = now + 1 /\ ran' = {}
  /\ UNCHANGED <<freq, created, isRead, mailed, digests, run, cuts, cut>>

-----------------------------------------------------------------------------
Goes(r, x) == run' = [run EXCEPT ![r] = x]

(* The cutoff is taken first; the user must have chosen this frequency.      *)
Start(r, k) ==
  /\ run[r].at = "idle" /\ (Prompt => k \notin ran) /\ ran' = ran \cup {k}
  /\ Goes(r, IF freq # k THEN Idle
             ELSE [Idle EXCEPT !.at = "read", !.kind = k, !.cutoff = IF now > Window(k) THEN now - Window(k) ELSE 0])
  /\ UNCHANGED <<now, freq, created, isRead, mailed, digests, cuts, cut>>

Waiting(r) == {n \in Notes : created[n] > 0 /\ ~isRead[n] /\ created[n] >= run[r].cutoff}

(* The newest, up to the cap.                                                *)
Read(r) ==
  /\ run[r].at = "read"
  /\ \E list \in SUBSET Waiting(r) :
       /\ Cardinality(list) = (IF Cardinality(Waiting(r)) < Cap THEN Cardinality(Waiting(r)) ELSE Cap)
       /\ \A n \in list, m \in Waiting(r) \ list : created[n] >= created[m]
       /\ Goes(r, IF list = {} THEN Idle ELSE [run[r] EXCEPT !.at = "mail", !.list = list])
  /\ UNCHANGED <<now, freq, created, isRead, mailed, digests, ran, cuts, cut>>

Mail(r) ==
  /\ run[r].at = "mail" /\ Goes(r, [run[r] EXCEPT !.at = "record"])
  /\ mailed' = [n \in Notes |-> IF n \in run[r].list THEN mailed[n] + 1 ELSE mailed[n]]
  /\ UNCHANGED <<now, freq, created, isRead, digests, ran, cuts, cut>>

Record(r) ==
  /\ run[r].at = "record" /\ Goes(r, [run[r] EXCEPT !.at = "mark"])
  /\ digests' = digests \cup {run[r].list}
  /\ UNCHANGED <<now, freq, created, isRead, mailed, ran, cuts, cut>>

Mark(r) ==
  /\ run[r].at = "mark" /\ Goes(r, Idle)
  /\ isRead' = [n \in Notes |-> isRead[n] \/ n \in run[r].list]
  /\ UNCHANGED <<now, freq, created, mailed, digests, ran, cuts, cut>>

(* An error is logged, or the process dies: the user's turn is over.         *)
CutOff(r) ==
  /\ cuts < MaxCuts /\ cuts' = cuts + 1 /\ run[r].at # "idle" /\ Goes(r, Idle)
  /\ cut' = IF run[r].at \in {"record", "mark"} THEN cut + 1 ELSE cut
  /\ UNCHANGED <<now, freq, created, isRead, mailed, digests, ran>>

Next ==
  \/ Tick \/ markAllRead
  \/ \E n \in Notes : Create(n) \/ ReadOne(n)
  \/ \E f \in Frequencies : updateDigestFrequency(f)
  \/ \E r \in Runs : Read(r) \/ Mail(r) \/ Record(r) \/ Mark(r) \/ CutOff(r) \/ \E k \in Kinds : Start(r, k)

Spec == Init /\ [][Next]_vars

-----------------------------------------------------------------------------
(* While runs do not overlap, a notification is mailed again only because a  *)
(* run was cut off between mailing it and marking it; and what a digest on    *)
(* record names was mailed.                                                  *)
MailedOnce ==
  /\ Cardinality(Runs) = 1 => \A n \in Notes : mailed[n] <= 1 + cut
  /\ \A d \in digests : \A n \in d : mailed[n] > 0

(* If the jobs run every hour and nothing fails, a user who keeps to digests  *)
(* by the hour or the day has had everything when its period is over, as     *)
(* long as no more than Cap come together.                                   *)
NoneLeftOut ==
  Prompt /\ MaxCuts = 0 /\ ~Changes /\ freq \in Kinds /\ Cardinality(Notes) <= Cap =>
    \A n \in Notes : created[n] > 0 /\ created[n] + Window(freq) < now => isRead[n] /\ mailed[n] = 1

-----------------------------------------------------------------------------
\* Not kept by the code: README.md, "Divergences".

(* "If digest mode, just create the Notification record (no immediate send). *)
(* The digest processor will batch these later"                             *)
(* (communications.service.ts:125): WEEKLY is a digest mode too.             *)
DeferredIsMailed ==
  Prompt /\ MaxCuts = 0 /\ ~Changes /\ freq # "IMMEDIATE" =>
    \A n \in Notes : created[n] > 0 /\ created[n] + Day < now => isRead[n]
=============================================================================
