----------------------------- MODULE StorageOpen -----------------------------
(***************************************************************************)
(* StorageService.init: the one connection to the database of a window,    *)
(* shared by whoever asks for it, while other windows hold connections of  *)
(* an older version or upgrade to a newer one.                             *)
(*                                                                         *)
(* The browser is modelled from how IndexedDB answers: requests to open    *)
(* one database are processed one after the other, a request is blocked    *)
(* while it must upgrade and other connections are open, and an open       *)
(* connection is told of an upgrade that waits for it.                     *)
(***************************************************************************)
EXTENDS Integers, Sequences, SequencesExt, FiniteSets

CONSTANTS Callers,      \* callers of init
          Others,       \* other windows, of another version of the program
          MaxRequests,  \* bound on the requests to open
          Retry         \* whether init may ask again while an earlier request is still blocked

ASSUME StorageAssumption == MaxRequests \in Nat \ {0} /\ Retry \in BOOLEAN

Requests == 1 .. MaxRequests
NoRequest == 0

Older == 6  \* DB_VERSION of the earlier program
Current == 7
Newer == 8

VARIABLES version,  \* of the database
          others,   \* what each other window does
          queue,    \* our requests that the browser has not processed
          request,  \* what became of each request
          handles,  \* our connections that are open, by their requests
          db,       \* this.db
          opening,  \* this._opening
          caller    \* what each caller of init waits for, or got

vars == <<version, others, queue, request, handles, db, opening, caller>>

Fresh == [resolved |-> FALSE, timer |-> FALSE]

Init ==
  /\ version \in {Older, Current}
  /\ others \in [Others -> {"closed", "open"}]
  /\ queue = <<>> /\ request = [r \in Requests |-> Fresh]
  /\ handles = {} /\ db = NoRequest /\ opening = NoRequest
  /\ caller = [c \in Callers |-> [pc |-> "idle", of |-> NoRequest]]

NextRequest == 1 + Cardinality({r \in Requests : r \in ToSet(queue) \/ request[r] # Fresh})

\* Those who wait for a request are answered.
Answer(r, answer) ==
  caller' = [c \in Callers |-> IF caller[c] = [pc |-> "wait", of |-> r]
                               THEN [caller[c] EXCEPT !.pc = answer] ELSE caller[c]]

\* fail(error)
Fail(r) ==
  /\ request' = [request EXCEPT ![r].resolved = TRUE]
  /\ opening' = NoRequest
  /\ Answer(r, "refused")
-----------------------------------------------------------------------------
(* init                                                                    *)
CallInit(c) ==
  /\ caller[c].pc # "wait"
  /\ \/ /\ db # NoRequest
        /\ caller' = [caller EXCEPT ![c].pc = "served"]
        /\ UNCHANGED <<queue, opening>>
     \/ /\ db = NoRequest /\ opening # NoRequest
        /\ caller' = [caller EXCEPT ![c] =
             [pc |-> IF request[opening].resolved THEN "refused" ELSE "wait", of |-> opening]]
        /\ UNCHANGED <<queue, opening>>
     \/ /\ db = NoRequest /\ opening = NoRequest /\ NextRequest \in Requests
        /\ Retry \/ queue = <<>>
        /\ caller' = [caller EXCEPT ![c] = [pc |-> "wait", of |-> NextRequest]]
        /\ queue' = Append(queue, NextRequest) /\ opening' = NextRequest
  /\ UNCHANGED <<version, others, request, handles, db>>

Blocking == {o \in Others : others[o] = "open"}

\* Mutant: the block is only logged.
BlockedLogged == FALSE

(* onblocked: only the first request of the queue is told.                 *)
Blocked ==
  /\ queue # <<>> /\ version = Older /\ Blocking # {}
  /\ ~request[Head(queue)].timer
  /\ request' = [request EXCEPT ![Head(queue)].timer = TRUE]
  /\ UNCHANGED <<version, others, queue, handles, db, opening, caller>>

(* The timer of a blocked request.                                         *)
Timeout(r) ==
  /\ request[r].timer /\ ~request[r].resolved
  /\ Fail(r)
  /\ UNCHANGED <<version, others, queue, handles, db>>

\* onsuccess: a connection that comes after its timeout is closed again.
Success(r) ==
  IF request[r].resolved
  THEN UNCHANGED <<request, handles, db, caller>>
  ELSE /\ request' = [request EXCEPT ![r].resolved = TRUE]
       /\ handles' = handles \cup {r} /\ db' = r
       /\ Answer(r, "served")

(* onupgradeneeded and onsuccess.                                          *)
Opened ==
  /\ queue # <<>> /\ version <= Current /\ (version = Older => Blocking = {})
  /\ \A o \in Others : others[o] # "upgrading"
  /\ version' = Current /\ queue' = Tail(queue)
  /\ Success(Head(queue))
  /\ UNCHANGED <<others, opening>>

(* onerror: the database is of a newer version, or cannot be opened.       *)
OpenError ==
  /\ queue # <<>> /\ (version = Older => Blocking = {})
  /\ LET r == Head(queue)
     IN IF request[r].resolved THEN UNCHANGED <<request, opening, caller>> ELSE Fail(r)
  /\ queue' = Tail(queue)
  /\ UNCHANGED <<version, others, handles, db>>

\* Mutant: the connection is closed and still handed out.
CloseKeepingDb == handles' = {} /\ UNCHANGED <<db, opening>>

\* onversionchange
VersionChange == handles' = {} /\ db' = NoRequest /\ opening' = NoRequest

(* Another window opens, closes, or upgrades, which our connection hears.  *)
OtherOpen(o) ==
  /\ others[o] = "closed" /\ queue = <<>> /\ others' = [others EXCEPT ![o] = "open"]
  /\ UNCHANGED <<version, queue, request, handles, db, opening, caller>>

OtherClose(o) ==
  /\ others[o] = "open" /\ others' = [others EXCEPT ![o] = "closed"]
  /\ UNCHANGED <<version, queue, request, handles, db, opening, caller>>

OtherUpgrade(o) ==
  /\ others[o] = "closed" /\ queue = <<>> /\ version = Current /\ Blocking = {}
  /\ others' = [others EXCEPT ![o] = "upgrading"]
  /\ UNCHANGED <<version, queue, request, handles, db, opening, caller>>

HearUpgrade ==
  /\ \E o \in Others : others[o] = "upgrading"
  /\ db \in handles
  /\ VersionChange
  /\ UNCHANGED <<version, others, queue, request, caller>>

OtherUpgraded(o) ==
  /\ others[o] = "upgrading" /\ handles = {}
  /\ version' = Newer /\ others' = [others EXCEPT ![o] = "open"]
  /\ UNCHANGED <<queue, request, handles, db, opening, caller>>

Browser == Blocked \/ Opened \/ OpenError \/ HearUpgrade \/ \E o \in Others : OtherUpgraded(o)

Next ==
  \/ Browser
  \/ \E c \in Callers : CallInit(c)
  \/ \E r \in Requests : Timeout(r)
  \/ \E o \in Others : OtherOpen(o) \/ OtherClose(o) \/ OtherUpgrade(o)

(* The browser does what it can and timers fire; nobody has to close a     *)
(* window.                                                                 *)
Spec ==
  /\ Init /\ [][Next]_vars
  /\ WF_vars(Browser)
  /\ \A r \in Requests : WF_vars(Timeout(r))
-----------------------------------------------------------------------------
TypeOK ==
  /\ version \in {Older, Current, Newer}
  /\ others \in [Others -> {"closed", "open", "upgrading"}]
  /\ ToSet(queue) \subseteq Requests /\ IsInjective(queue)
  /\ request \in [Requests -> [resolved : BOOLEAN, timer : BOOLEAN]]
  /\ handles \subseteq Requests
  /\ db \in Requests \cup {NoRequest} /\ opening \in Requests \cup {NoRequest}
  /\ opening # NoRequest => (opening \in ToSet(queue) <=> ~request[opening].resolved)
  /\ caller \in [Callers -> [pc : {"idle", "wait", "served", "refused"}, of : Requests \cup {NoRequest}]]

(* The window has one connection, the one it hands out: none is left over  *)
(* that would block the next upgrade (StorageService.js:143-145).          *)
OneConnection == handles = IF db = NoRequest THEN {} ELSE {db}

(* Whoever calls init is answered, even while another window stays open    *)
(* (a07-indexeddb-blocked-startup.test.mjs:8).                             *)
CallersAnswered == \A c \in Callers : caller[c].pc = "wait" ~> caller[c].pc # "wait"

(* A newer version of the program is never kept from upgrading.            *)
UpgradesGranted == \A o \in Others : others[o] = "upgrading" ~> others[o] = "open"
=============================================================================
