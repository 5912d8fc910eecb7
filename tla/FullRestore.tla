----------------------------- MODULE FullRestore -----------------------------
(***************************************************************************)
(* StorageService.exportAll, importAll and clearAll: a snapshot of every   *)
(* store and its restore in one transaction, over documents that are       *)
(* edited and finalized meanwhile, their lines, the audit chain and the    *)
(* users of the installation.                                              *)
(*                                                                         *)
(* A document is a journal: a row with a revision, and lines that are rows *)
(* of their own, written anew under new ids by every edit. A restore is    *)
(* guarded by all that would abort its transaction.                        *)
(***************************************************************************)
EXTENDS Integers, FiniteSets, Sequences, SequencesExt

CONSTANTS Docs, Users, Names,
          Manager, \* the id that Auth.init gives the first manager
          MaxUsers,
          MaxBackups, MaxUid   \* bounds

\* What the constants must be; the module that instantiates this one assumes it.
FullRestoreAssumption ==
  Manager \in Users /\ MaxUsers \in Nat \ {0} /\ MaxBackups \in Nat /\ MaxUid \in Nat

VARIABLES doc,     \* journal_entries: status and revision
          lines,   \* journal_lines: the ids of the lines of each document
          chain,   \* the ids of the audit events, in order
          user,    \* users
          backups, \* the snapshots taken
          uid      \* the last id drawn

vars == <<doc, lines, chain, user, backups, uid>>

NoDoc == [status |-> "absent", rev |-> 0]
NoUser == [status |-> "absent"]

\* secret is the id of the password, 0 when it must be set.
User(name, role, secret) == [status |-> "present", name |-> name, role |-> role, secret |-> secret]

Present(row) == row.status # "absent"

\* What Auth.init finds or makes in an empty installation.
FirstUsers(secret) ==
  [u \in Users |-> IF u = Manager THEN User("manager", "admin", secret) ELSE NoUser]

Init ==
  /\ doc = [d \in Docs |-> NoDoc] /\ lines = [d \in Docs |-> {}]
  /\ chain = <<>> /\ user = FirstUsers(1) /\ backups = {} /\ uid = 1

Draw == uid < MaxUid /\ uid' = uid + 1
Logged == chain' = Append(chain, uid + 1)

-----------------------------------------------------------------------------
(* The program at work                                                     *)

Known(d) == \E b \in backups : Present(b.doc[d])

SaveDraft(d) ==
  /\ doc[d].status = "draft" \/ (doc[d].status = "absent" /\ ~Known(d))
  /\ Draw /\ Logged
  /\ doc' = [doc EXCEPT ![d] = [status |-> "draft", rev |-> uid + 1]]
  /\ lines' = [lines EXCEPT ![d] = {uid + 1}]
  /\ UNCHANGED <<user, backups>>

PostDraft(d) ==
  /\ doc[d].status = "draft"
  /\ Draw /\ Logged
  /\ doc' = [doc EXCEPT ![d] = [status |-> "posted", rev |-> uid + 1]]
  /\ UNCHANGED <<lines, user, backups>>

CreateUser(u, name) ==
  /\ ~Present(user[u]) /\ \A b \in backups : ~Present(b.user[u])
  /\ Cardinality({v \in Users : Present(user[v])}) < MaxUsers
  /\ \A v \in Users : Present(user[v]) => user[v].name # name
  /\ Draw
  /\ user' = [user EXCEPT ![u] = User(name, "user", uid + 1)]
  /\ UNCHANGED <<doc, lines, chain, backups>>

SetPassword(u) ==
  /\ Present(user[u]) /\ Draw
  /\ user' = [user EXCEPT ![u].secret = uid + 1]
  /\ UNCHANGED <<doc, lines, chain, backups>>

-----------------------------------------------------------------------------
\* stripCredentials
ExportedUsers ==
  [u \in Users |-> IF Present(user[u]) THEN [user[u] EXCEPT !.secret = 0] ELSE NoUser]

ExportAll ==
  /\ Cardinality(backups) < MaxBackups
  /\ backups' = backups \cup {[doc |-> doc, lines |-> lines, chain |-> chain, user |-> ExportedUsers]}
  /\ UNCHANGED <<doc, lines, chain, user, uid>>

(* clearAll, after which the page is loaded anew and Auth.init makes the   *)
(* manager, who sets a password.                                           *)
ClearAll ==
  /\ Draw
  /\ doc' = [d \in Docs |-> NoDoc] /\ lines' = [d \in Docs |-> {}]
  /\ chain' = <<>> /\ user' = FirstUsers(uid + 1)
  /\ UNCHANGED backups

-----------------------------------------------------------------------------
(* importAll                                                               *)

\* Mutant: only what is finalized here is protected.
ConflictHereOnly(b, d) ==
  Present(doc[d]) /\ Present(b.doc[d]) /\ doc[d].status = "posted" /\ doc[d] # b.doc[d]

\* existingFinalizedRecord and sameSnapshotRecord: finalized here or in the file.
Conflict(b, d) ==
  /\ Present(doc[d]) /\ Present(b.doc[d])
  /\ "posted" \in {doc[d].status, b.doc[d].status}
  /\ doc[d] # b.doc[d]

\* restoreHistorical: an event is there already, or the next of the chain.
SameHistory(b) == IsPrefix(b.chain, chain) \/ IsPrefix(chain, b.chain)

\* _importUsers: access and passwords are those of this installation.
Imported(b, u) ==
  IF ~Present(b.user[u]) THEN user[u]
  ELSE IF Present(user[u]) THEN User(b.user[u].name, user[u].role, user[u].secret)
  ELSE User(b.user[u].name, "user", 0)

UsersAllowed(after) ==
  /\ Cardinality({u \in Users : Present(after[u])}) <= MaxUsers
  /\ \A u, v \in Users : u # v /\ Present(after[u]) /\ Present(after[v]) => after[u].name # after[v].name

PutDoc(b, d) == IF Present(b.doc[d]) THEN b.doc[d] ELSE doc[d]

ImportAll(b) ==
  LET after == [u \in Users |-> Imported(b, u)]
  IN  /\ SameHistory(b) /\ UsersAllowed(after)
      /\ \A d \in Docs : ~Conflict(b, d)
      /\ user' = after
      /\ doc' = [d \in Docs |-> PutDoc(b, d)]
      /\ lines' = [d \in Docs |-> lines[d] \cup b.lines[d]]
      /\ chain' = IF Len(b.chain) > Len(chain) THEN b.chain ELSE chain
      /\ UNCHANGED <<backups, uid>>

Import == \E b \in backups : ImportAll(b)

Next ==
  \/ \E d \in Docs : SaveDraft(d) \/ PostDraft(d)
  \/ \E u \in Users : SetPassword(u) \/ \E name \in Names : CreateUser(u, name)
  \/ ExportAll \/ ClearAll \/ Import

Spec == Init /\ [][Next]_vars
-----------------------------------------------------------------------------
TypeOK ==
  /\ \A d \in Docs : doc[d].status \in {"absent", "draft", "posted"} /\ doc[d].rev \in 0 .. MaxUid
  /\ \A d \in Docs : Present(doc[d]) <=> lines[d] # {}
  /\ Len(chain) <= MaxUid /\ IsInjective(chain)
  /\ uid \in 1 .. MaxUid /\ Cardinality(backups) <= MaxBackups

(* No restore changes a finalized document or its lines, and none makes a  *)
(* finalized document of a draft; the audit log is only extended           *)
(* (StorageService.js:490-493).                                            *)
FinalizedKept ==
  [][Import =>
       /\ \A d \in Docs : doc[d].status = "posted" => doc'[d] = doc[d] /\ lines'[d] = lines[d]
       /\ \A d \in Docs : doc[d].status = "draft" => doc'[d].status = "draft"
       /\ IsPrefix(chain, chain')]_vars

(* No restore gives a password, takes one away or makes a manager, and the *)
(* users stay within their limit (StorageService.js:525-527).              *)
AccessKept ==
  [][Import => \A u \in Users :
       IF Present(user[u]) THEN user'[u].secret = user[u].secret /\ user'[u].role = user[u].role
       ELSE Present(user'[u]) => user'[u].secret = 0 /\ user'[u].role = "user"]_vars

(* There is a manager, no more users than allowed, and no name twice.      *)
UsersLimited ==
  /\ user[Manager].role = "admin"
  /\ Cardinality({u \in Users : Present(user[u])}) <= MaxUsers
  /\ \A u, v \in Users : u # v /\ Present(user[u]) /\ Present(user[v]) => user[u].name # user[v].name

(* A restore into a cleared installation gives back the documents, their   *)
(* lines and their history, those of the file that was read.               *)
RestoreGivesBack ==
  [][chain = <<>> /\ (\A d \in Docs : ~Present(doc[d])) =>
       \A b \in backups :
         ImportAll(b) => doc' = b.doc /\ lines' = b.lines /\ chain' = b.chain]_vars
=============================================================================
