------------------------------- MODULE License -------------------------------
(***************************************************************************)
(* LicenseService over SecureState: the trial, the signed lease, the clock *)
(* and the restarts of the program. Commands of one window interleave at   *)
(* their awaits; writes of the protected state are done in the order they  *)
(* were asked for, each with the state as it was when it was asked for.    *)
(*                                                                         *)
(* Time is in ticks, Day of them to a day. A token is one whose signature  *)
(* and installation have been verified.                                    *)
(***************************************************************************)
EXTENDS Integers, Sequences, SequencesExt

CONSTANTS Tasks,      \* commands that may run at once
          Tokens,     \* signed entitlements
          NoToken,
          Null,       \* a stored value that cannot be read
          Stored,     \* what an earlier version may have left in the store
          Day, Tolerance, TRIAL_DAYS, TRIAL_INVOICE_LIMIT, OFFLINE_LEASE_DAYS,
          MaxClock,   \* bound on the clock
          MaxIssued,  \* bound on the invoices issued, and on their counter
          Faults      \* whether writes may fail, the program die and the clock jump in a command

\* What the constants must be; the module that instantiates this one assumes it.
LicenseAssumption ==
  /\ {Day, Tolerance, TRIAL_DAYS, TRIAL_INVOICE_LIMIT, OFFLINE_LEASE_DAYS, MaxClock, MaxIssued} \subseteq Nat
  /\ Day > Tolerance /\ Faults \in BOOLEAN /\ NoToken \notin Tokens

VARIABLES clock,   \* Date.now()
          disk,    \* the protected state in localStorage, Null when there is none
          state,   \* this.state, Null while the program is closed
          lease,   \* this.verifiedPayload
          clockRollback,
          writes,  \* the calls of SecureState.set under way
          tasks,
          issued   \* invoices committed

vars == <<clock, disk, state, lease, clockRollback, writes, tasks, issued>>

Idle == [pc |-> "idle", next |-> Null]

NewTrial == [started |-> clock, count |-> 0, seen |-> clock, token |-> NoToken]

Init ==
  /\ clock = 0
  /\ disk \in Stored \cup {Null} /\ state = Null /\ lease = NoToken /\ clockRollback = FALSE
  /\ writes = <<>> /\ tasks = [t \in Tasks |-> Idle] /\ issued = 0

-----------------------------------------------------------------------------
(* LicensePolicy, EntitlementVerifier and LicenseActivationCore            *)

\* trialStatus: the end of the trial, or a state that cannot be read.
TrialOver(s) ==
  \/ s.started = Null \/ s.count = Null
  \/ s.started > clock + Tolerance
  \/ clock - s.started >= TRIAL_DAYS * Day
  \/ s.count >= TRIAL_INVOICE_LIMIT

\* validateEntitlementPayload
ValidPayload(token) ==
  token.notBefore <= clock /\ (token.expires # Null => clock <= token.expires)

\* licensedStatus
Leased(token) ==
  token.checked <= clock + Tolerance /\ clock - token.checked <= OFFLINE_LEASE_DAYS * Day

\* validateOfflineActivation
ValidActivation(token) ==
  /\ token # NoToken /\ ValidPayload(token) /\ Leased(token)
  /\ token.issued <= token.checked /\ token.issued <= clock + Tolerance

\* The clock is behind the last start of the program.
BehindLastStart(s) == s.seen # Null /\ clock + Tolerance < s.seen

\* status().readOnly. A token that does not hold is never taken for a trial.
ReadOnly(s, payload, rollback) ==
  \/ rollback \/ BehindLastStart(s)
  \/ IF payload # NoToken /\ ValidPayload(payload) THEN ~Leased(payload)
     ELSE s.token # NoToken \/ TrialOver(s)

Writable == state # Null /\ ~ReadOnly(state, lease, clockRollback)

\* What init makes of a stored state.
Verified(s) == IF ~BehindLastStart(s) /\ ValidActivation(s.token) THEN s.token ELSE NoToken
Seen(s) == IF BehindLastStart(s) THEN s ELSE [s EXCEPT !.seen = clock]
-----------------------------------------------------------------------------
Begin(t, pc) == tasks' = [tasks EXCEPT ![t].pc = pc]
End(t) == tasks' = [tasks EXCEPT ![t] = Idle]

StartWith(s) ==
  /\ state = Null
  /\ state' = Seen(s) /\ clockRollback' = BehindLastStart(s) /\ lease' = Verified(s)
  /\ writes' = <<[value |-> Seen(s), by |-> Null]>>
  /\ UNCHANGED <<clock, disk, tasks, issued>>

\* init, up to its save: only a new installation receives a trial.
Open == StartWith(IF disk = Null THEN NewTrial ELSE disk)

\* The program starts its commands when init has returned, and no more once
\* all is wiped: the page is loaded anew.
Started == state # Null /\ disk # Null /\ \A k \in DOMAIN writes : writes[k].by # Null

\* A command that issues an invoice: assertWritable before it, ...
BeginIssue(t) ==
  /\ Started /\ tasks[t].pc = "idle" /\ Writable
  /\ Begin(t, "commit")
  /\ UNCHANGED <<clock, disk, state, lease, clockRollback, writes, issued>>

\* ... its transaction, which may also refuse it, ...
CommitInvoice(t) ==
  /\ tasks[t].pc = "commit" /\ issued < MaxIssued
  /\ state.count # Null => state.count < MaxIssued
  /\ \/ issued' = issued + 1 /\ Begin(t, "record")
     \/ UNCHANGED issued /\ End(t)
  /\ UNCHANGED <<clock, disk, state, lease, clockRollback, writes>>

\* ... and in recordIssuedInvoice after the commit.
RecordIssuedInvoice(t) ==
  /\ tasks[t].pc = "record"
  /\ IF Writable
     THEN LET next == [state EXCEPT !.count = IF @ = Null THEN 1 ELSE @ + 1]
          IN  state' = next /\ writes' = Append(writes, [value |-> next, by |-> t]) /\ Begin(t, "save")
     ELSE UNCHANGED <<state, writes>> /\ End(t)
  /\ UNCHANGED <<clock, disk, lease, clockRollback, issued>>

\* Mutant: the token is stored by the next save.
ActivateInMemory(t) ==
  /\ Started /\ tasks[t].pc = "idle"
  /\ \E token \in Tokens :
       /\ ValidActivation(token)
       /\ tasks' = [tasks EXCEPT ![t] = [pc |-> "activate", next |-> [state EXCEPT !.token = token]]]
       /\ writes' = Append(writes, [value |-> state, by |-> t])
  /\ UNCHANGED <<clock, disk, state, lease, clockRollback, issued>>

\* activateSignedLicense, up to its write ...
BeginActivation(t) ==
  /\ Started /\ tasks[t].pc = "idle"
  /\ \E token \in Tokens :
       LET next == [state EXCEPT !.token = token]
       IN  /\ ValidActivation(token)
           /\ tasks' = [tasks EXCEPT ![t] = [pc |-> "activate", next |-> next]]
           /\ writes' = Append(writes, [value |-> next, by |-> t])
  /\ UNCHANGED <<clock, disk, state, lease, clockRollback, issued>>

\* ... and after it.
EndActivation(t) ==
  /\ tasks[t].pc = "activate" /\ \A k \in DOMAIN writes : writes[k].by # t
  /\ state' = tasks[t].next /\ lease' = tasks[t].next.token
  /\ End(t)
  /\ UNCHANGED <<clock, disk, clockRollback, writes, issued>>

\* wipeAll: clearAll takes a writable program, ...
BeginWipe(t) ==
  /\ Started /\ tasks[t].pc = "idle" /\ Writable
  /\ Begin(t, "wipe")
  /\ UNCHANGED <<clock, disk, state, lease, clockRollback, writes, issued>>

\* ... empties the stores, and localStorage.clear() takes the protected state
\* with it; the page is loaded anew a little later.
EndWipe(t) ==
  /\ tasks[t].pc = "wipe"
  /\ issued' = 0 /\ disk' = Null /\ End(t)
  /\ UNCHANGED <<clock, state, lease, clockRollback, writes>>

\* SecureState.set
WriteState ==
  /\ writes # <<>>
  /\ disk' = Head(writes).value /\ writes' = Tail(writes)
  /\ tasks' = [t \in Tasks |-> IF t = Head(writes).by /\ tasks[t].pc = "save" THEN Idle ELSE tasks[t]]
  /\ UNCHANGED <<clock, state, lease, clockRollback, issued>>

\* The protection of the state fails: the caller throws.
FailWrite ==
  /\ Faults /\ writes # <<>>
  /\ writes' = Tail(writes)
  /\ IF Head(writes).by = Null
     THEN \* init has thrown: the program does not start
          /\ state' = Null /\ lease' = NoToken /\ UNCHANGED tasks
     ELSE End(Head(writes).by) /\ UNCHANGED <<state, lease>>
  /\ UNCHANGED <<clock, disk, clockRollback, issued>>

Close ==
  /\ state # Null
  /\ Faults \/ (writes = <<>> /\ \A t \in Tasks : tasks[t] = Idle)
  /\ state' = Null /\ lease' = NoToken /\ writes' = <<>>
  /\ tasks' = [t \in Tasks |-> Idle]
  /\ UNCHANGED <<clock, disk, clockRollback, issued>>

\* Time passes, and the clock may be set to an earlier time.
SetClock == \E c \in 0 .. MaxClock :
  /\ c <= clock + 1 /\ c # clock /\ clock' = c
  /\ Faults \/ \A t \in Tasks : tasks[t] = Idle
  /\ UNCHANGED <<disk, state, lease, clockRollback, writes, tasks, issued>>

Next ==
  \/ Open \/ WriteState \/ FailWrite \/ Close \/ SetClock
  \/ \E t \in Tasks : \/ BeginIssue(t) \/ CommitInvoice(t) \/ RecordIssuedInvoice(t)
                      \/ BeginActivation(t) \/ EndActivation(t)
                      \/ BeginWipe(t) \/ EndWipe(t)

Spec == Init /\ [][Next]_vars
-----------------------------------------------------------------------------
Times == 0 .. MaxClock

State == [started: Times \cup {Null}, count: 0 .. MaxIssued \cup {Null}, seen: Times \cup {Null},
          token: Tokens \cup {NoToken}]

TypeOK ==
  /\ clock \in Times /\ issued \in 0 .. MaxIssued
  /\ disk \in State \cup {Null} /\ state \in State \cup {Null}
  /\ lease \in Tokens \cup {NoToken} /\ (lease # NoToken => state # Null /\ state.token # NoToken)
  /\ clockRollback \in BOOLEAN
  /\ \A k \in DOMAIN writes : writes[k].value \in State /\ writes[k].by \in Tasks \cup {Null}

(* Without a licence no more invoices are issued than the trial allows,    *)
(* counted from the last wipe, which erases them (LicensePolicy.mjs:2).    *)
TrialLimitKept ==
  state # Null /\ state.token = NoToken /\ disk \notin Stored => issued <= TRIAL_INVOICE_LIMIT

(* An installation has one trial until it is wiped: neither a start, a     *)
(* clock set back, a crash, a failed write nor two commands that save at   *)
(* once bring a later beginning or, without a licence, a smaller count, or *)
(* make what cannot be read readable; only a wipe erases the state         *)
(* (LicensePolicy.mjs:7-9, SettingsController.js:234-243).                 *)
OneTrial ==
  disk # Null =>
    IF disk' = Null THEN \E t \in Tasks : tasks[t].pc = "wipe"
    ELSE /\ disk'.started = disk.started
         /\ \/ disk'.token # NoToken
            \/ disk.count = Null /\ disk'.count = Null
            \/ disk.count # Null /\ disk'.count # Null /\ disk'.count >= disk.count

(* A start after the end of the trial ends it for good: setting the clock  *)
(* back makes nothing writable (LicenseService.js:51-55).                  *)
SeenEndIsFinal ==
  Started /\ disk.token = NoToken /\ disk.started # Null /\ disk.seen # Null
  /\ disk.seen >= disk.started + TRIAL_DAYS * Day + Tolerance
  => ~Writable \/ lease # NoToken

(* Closing and opening the program at the same time never takes the right  *)
(* to write away, unless all was wiped: what init verifies anew agrees     *)
(* with what status() was satisfied with, after whatever activations and   *)
(* failed writes.                                                          *)
RestartKeepsRight ==
  Started /\ Writable /\ (\A t \in Tasks : tasks[t].pc # "activate")
  => ~ReadOnly(Seen(disk), Verified(disk), BehindLastStart(disk))
=============================================================================
