------------------------------ MODULE EdgePoller ------------------------------
(***************************************************************************)
(* The goroutine that polls one SmartLogger (internal/edge/poller.go):     *)
(* dial, the required registers, then soft groups (optional, slow, meter)  *)
(* that may fail without failing the poll.  Values of soft groups are held *)
(* between their attempts and merged into every reading that is sent.      *)
(***************************************************************************)
EXTENDS Integers, Sequences

CONSTANTS
  Groups,               \* the soft groups, in the order of the code
  Chunks,               \* by group: the sets of keys read in one request, in order
  Every,                \* by group: cycles between two good attempts
  Backoff,              \* cycles to wait after a transport error (softReadBackoff)
  PollFailThreshold     \* consecutive failures before SL_POLL_FAIL

GroupIds == DOMAIN Groups
GroupKeys(g) == UNION {Chunks[g][i] : i \in DOMAIN Chunks[g]}
AllKeys == UNION {GroupKeys(g) : g \in GroupIds}

ASSUME PollerAssumption ==
  /\ \A g \in GroupIds : \A i, j \in DOMAIN Chunks[g] :
       i # j => Chunks[g][i] \cap Chunks[g][j] = {}
  /\ DOMAIN Chunks = GroupIds /\ Every \in [GroupIds -> Nat \ {0}]
  /\ Backoff \in Nat \ {0} /\ PollFailThreshold \in Nat \ {0}
  /\ \A g, h \in GroupIds : g # h => GroupKeys(g) \cap GroupKeys(h) = {}

VARIABLES
  session,              \* whether a TCP session is open
  stage,                \* 0: dial and poll; g: group g is next; past the last: send
  failures,             \* consecutive failures, counted to the threshold
  failEventSent,
  readable,             \* keys the firmware has not refused
  held,                 \* keys with a held value
  due,                  \* by group: cycles until its next attempt
  silent,               \* history: failed attempts in a row
  open,                 \* history: SL_POLL_FAIL events less SL_POLL_RECOVERED events
  newest                \* history: how the last request for each key ended

failVars == <<failures, failEventSent, silent, open>>
softVars == <<readable, held, newest>>
pollerVars == <<session, stage, failVars, softVars, due>>

Sending == Len(Groups) + 1

PollerInit ==
  /\ session = FALSE /\ stage = 0
  /\ failures = 0 /\ failEventSent = FALSE /\ silent = 0 /\ open = 0
  /\ readable = AllKeys /\ held = {} /\ newest = [k \in AllKeys |-> "never"]
  /\ due = [g \in GroupIds |-> 0]

Counted(n) == IF n < PollFailThreshold THEN n + 1 ELSE n

\* failures++ and maybeEmitPollFail, alike for a dial and for a poll.
Fails ==
  LET announces == ~failEventSent /\ Counted(failures) >= PollFailThreshold
  IN /\ failures' = Counted(failures) /\ silent' = Counted(silent)
     /\ failEventSent' = (failEventSent \/ announces)
     /\ open' = IF announces THEN open + 1 ELSE open

\* The next cycle: an overdue group stays due.
Waited == [g \in GroupIds |-> IF due[g] = 0 THEN 0 ELSE due[g] - 1]

DialFails ==
  /\ stage = 0 /\ ~session /\ Fails
  /\ due' = Waited
  /\ UNCHANGED <<session, stage, softVars>>

\* Mutant of PollFails: the dial before it has cleared the count.
PollFailsDialled ==
  /\ stage = 0 /\ failures' = 1 /\ silent' = Counted(silent)
  /\ session' = FALSE /\ due' = Waited
  /\ UNCHANGED <<stage, softVars, failEventSent, open>>

\* A required register could not be read: the session is closed.
PollFails ==
  /\ stage = 0 /\ Fails
  /\ session' = FALSE /\ due' = Waited
  /\ UNCHANGED <<stage, softVars>>

PollSucceeds ==
  /\ stage = 0 /\ session' = TRUE /\ stage' = 1
  /\ failures' = 0 /\ silent' = 0 /\ failEventSent' = FALSE
  /\ open' = IF failEventSent THEN open - 1 ELSE open
  /\ UNCHANGED <<softVars, due>>

-------------------------------------------------------------------------------
(* Soft groups. *)

\* The requests for what is left of the group; they are made in their order.
Planned(g) == {i \in DOMAIN Chunks[g] : Chunks[g][i] \cap readable # {}}

NotYet(g) ==
  /\ stage = g /\ (due[g] > 0 \/ Planned(g) = {})
  /\ stage' = g + 1
  /\ due' = [due EXCEPT ![g] = IF due[g] > 0 THEN due[g] ELSE Every[g]]
  /\ UNCHANGED <<session, failVars, softVars>>

\* GroupKeys of the requests that ended in answer; the first transport error ends
\* the group, and what follows it is not asked.
KeysWith(g, answers, answer) ==
  UNION {Chunks[g][i] \cap readable :
           i \in {i \in DOMAIN answers :
                    /\ answers[i] = answer
                    /\ \A j \in DOMAIN answers : j < i => answers[j] # "io"}}

\* Mutant of HeldAfter: only refused keys lose their value.
HeldAfterRefusal(g, answers) ==
  (held \ KeysWith(g, answers, "refused")) \cup KeysWith(g, answers, "value")

\* mergeSoft: what was read is held, every other key of the group forgotten.
HeldAfter(g, answers) == (held \ GroupKeys(g)) \cup KeysWith(g, answers, "value")

\* Mutant of ReadableAfter: a transport error drops keys for good as well.
ReadableAfterIO(g, answers) ==
  readable \ (KeysWith(g, answers, "refused") \cup KeysWith(g, answers, "io"))

\* An exception of any code is a refusal, for as long as the process lives.
ReadableAfter(g, answers) == readable \ KeysWith(g, answers, "refused")

ReadGroup(g) ==
  /\ stage = g /\ due[g] = 0 /\ Planned(g) # {}
  /\ \E answers \in [Planned(g) -> {"value", "refused", "io"}] :
       /\ held' = HeldAfter(g, answers)
       /\ readable' = ReadableAfter(g, answers)
       /\ due' = [due EXCEPT ![g] =
                    IF \E i \in DOMAIN answers : answers[i] = "io" THEN Backoff ELSE Every[g]]
       /\ newest' = [k \in AllKeys |->
                       IF \E a \in {"value", "refused", "io"} : k \in KeysWith(g, answers, a)
                       THEN CHOOSE a \in {"value", "refused", "io"} : k \in KeysWith(g, answers, a)
                       ELSE newest[k]]
  /\ stage' = g + 1
  /\ UNCHANGED <<session, failVars>>

\* The reading with the held values goes to the core loop; then the ticker.
Send ==
  /\ stage = Sending /\ stage' = 0
  /\ due' = Waited
  /\ UNCHANGED <<session, failVars, softVars>>

PollerNext ==
  \/ DialFails \/ PollFails \/ PollSucceeds \/ Send
  \/ \E g \in GroupIds : NotYet(g) \/ ReadGroup(g)

\* The loop goes on; whether the device answers is up to the device.
PollerFairness == WF_pollerVars(PollerNext)

PollerSpec == PollerInit /\ [][PollerNext]_pollerVars

-------------------------------------------------------------------------------
(* Properties. *)

\* An SL_POLL_FAIL stands in the journal, once, exactly while PollFailThreshold
\* attempts or more in a row have failed, dials and polls of any number of
\* sessions together; every other outage has been closed by SL_POLL_RECOVERED.
OutageJournalled == open = (IF silent >= PollFailThreshold THEN 1 ELSE 0)

\* "A key holds a value only while its newest attempt succeeded": nothing that
\* was refused or lost since is merged into a reading.
HeldIsLatest == \A k \in held : newest[k] = "value"

\* A key disappears for good only because the device refused it, and is not
\* asked for again: transport errors, lost sessions and retries never cost one.
OnlyRefusalsAreFinal == \A k \in AllKeys : (newest[k] = "refused") = (k \notin readable)

\* What the poller holds of a key and whether it asks for it again follow from
\* the newest attempt alone (poller.go pollSoft).
HeldAsAnswered == HeldIsLatest /\ OnlyRefusalsAreFinal

\* Outages are journalled and values held as the attempts went.
PollerTruthful == OutageJournalled /\ HeldAsAnswered

===============================================================================
