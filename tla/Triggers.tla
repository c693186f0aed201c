------------------------------- MODULE Triggers -------------------------------
(***************************************************************************)
(* Watch triggers of engine-actions.  A trigger names a root entity and a   *)
(* selection to watch; here the root's title and, over one relation, the    *)
(* name of its nodes.  TriggerListenersBuilder derives from it listeners on *)
(* the rows and on the relation, TriggerHandler collects what fires during  *)
(* the mutations of a transaction, and before the commit                    *)
(* TriggerPayloadManager turns that into one payload per root and stores it *)
(* in actions_event, in the same database transaction.                      *)
(*                                                                          *)
(* The relation is many-has-one (the root holds the column; a one-has-one   *)
(* owner listens alike), one-has-many (the node holds it; a one-has-one     *)
(* inverse listens alike) or many-has-many (a junction table).              *)
(***************************************************************************)
EXTENDS Naturals

CONSTANTS Roots, Nodes,  \* the rows that may ever exist
          Gone,          \* the row does not exist
          None,          \* null; no selection
          Batch          \* bound: mutations in one transaction

ASSUME TriggersAssumption == Batch \in Nat \ {0}

VARIABLES rel,      \* the relation as the schema defines it
          db,       \* committed rows
          now,      \* the rows as the open transaction sees them
          dead,     \* rows deleted in the open transaction
          fired,    \* the events that will be built into payloads
          first,    \* {}, or the one selection the first of them carries
          touched,  \* history: roots with a row really changed in their tree
          count,    \* mutations done in the open transaction
          outbox,   \* payloads the last transaction stored, until the next one begins
          answer    \* what it reported

vars == <<rel, db, now, dead, fired, first, touched, count, outbox, answer>>

(* restricted: an ACL predicate guards the entities a junction joins; a      *)
(* junction has no deletion rule of its own.                                 *)
Relations ==
  [kind : {"manyHasOne", "oneHasMany"}, onDelete : {"restrict", "cascade", "setNull"},
   restricted : {FALSE}]
  \cup [kind : {"manyHasMany"}, onDelete : {"cascade"}, restricted : BOOLEAN]
Values == {0, 1}
Rows == [title : [Roots -> Values \cup {Gone}], name : [Nodes -> Values \cup {Gone}],
         links : SUBSET (Roots \X Nodes)]

NodesOf(d, r) == {n \in Nodes : <<r, n>> \in d.links}
RootsOf(d, n) == {r \in Roots : <<r, n>> \in d.links}

(* Foreign keys, and the arity of the column that holds the relation.       *)
Consistent(d) ==
  /\ \A l \in d.links : d.title[l[1]] # Gone /\ d.name[l[2]] # Gone
  /\ rel.kind = "manyHasOne" => \A l, m \in d.links : l[1] = m[1] => l[2] = m[2]
  /\ rel.kind = "oneHasMany" => \A l, m \in d.links : l[2] = m[2] => l[1] = m[1]

(* What the selection shows of a root, and what the trigger watches.        *)
Tree(d, r) ==
  IF d.title[r] = Gone THEN Gone
  ELSE [id |-> r, title |-> d.title[r], nodes |-> {<<n, d.name[n]>> : n \in NodesOf(d, r)}]

Begin(d) ==
  /\ now' = d /\ dead' = {} /\ fired' = {} /\ first' = {} /\ touched' = {} /\ count' = 0

Init ==
  /\ rel \in Relations
  /\ db \in {d \in Rows : Consistent(d)}
  /\ now = db /\ dead = {} /\ fired = {} /\ first = {} /\ touched = {} /\ count = 0
  /\ outbox = {} /\ answer = "none"

-----------------------------------------------------------------------------
(* The listeners the watched selection yields.                               *)
RootFields == {"title"} \cup (IF rel.kind = "manyHasOne" THEN {"link"} ELSE {})
NodeRelations == IF rel.kind = "oneHasMany" THEN {"link"} ELSE {}
NodeFields == {"name"} \cup NodeRelations

Event(r, operation, entity, row) ==
  [id |-> r, operation |-> operation, entity |-> entity, row |-> row]
Of(roots, operation, entity, row) == {Event(r, operation, entity, row) : r \in roots}

(* One step of a mutation: the rows become d, es fires (the first of them    *)
(* with the selection shot), rs are the roots whose tree has a changed row.  *)
Record(d, es, shot, rs) ==
  /\ count < Batch
  /\ now' = d
  /\ fired' = fired \cup es
  /\ first' = IF first = {} /\ es # {} THEN {shot} ELSE first
  /\ touched' = touched \cup rs
  /\ count' = count + 1 /\ outbox' = {} /\ answer' = "none"
  /\ UNCHANGED <<rel, db>>

(* AfterInsertEvent of a root: directCreateHandler.                          *)
InsertRoot == \E r \in Roots, v \in Values, ns \in SUBSET Nodes :
  /\ now.title[r] = Gone /\ r \notin dead
  /\ ns # {} => rel.kind = "manyHasOne"
  /\ LET d == [now EXCEPT !.title[r] = v, !.links = @ \cup ({r} \X ns)]
     IN Consistent(d) /\ Record(d, {Event(r, "create", "root", r)}, None, {r})
  /\ UNCHANGED dead

(* AfterInsertEvent of a node: indirectChangesEntityHandler.                 *)
InsertNode == \E n \in Nodes, v \in Values, rs \in SUBSET Roots :
  /\ now.name[n] = Gone /\ n \notin dead
  /\ rs # {} => rel.kind = "oneHasMany"
  /\ LET d == [now EXCEPT !.name[n] = v, !.links = @ \cup (rs \X {n})]
     IN Consistent(d) /\ Record(d, Of(rs, "create", "node", n), None, rs)
  /\ UNCHANGED dead

(* The fields of an update and the rows after it; "other" is a column nobody *)
(* watches.                                                                  *)
RootUpdate(r, fields, v, ns) ==
  [now EXCEPT !.title[r] = IF "title" \in fields THEN v ELSE @,
              !.links = IF "link" \in fields THEN {l \in @ : l[1] # r} \cup ({r} \X ns) ELSE @]
NodeUpdate(n, fields, v, rs) ==
  [now EXCEPT !.name[n] = IF "name" \in fields THEN v ELSE @,
              !.links = IF "link" \in fields THEN {l \in @ : l[2] # n} \cup (rs \X {n}) ELSE @]

HasChanges(d, fields) == d # now \/ "other" \in fields

(* AfterUpdateEvent of a root: directUpdateHandler, when anything changed.   *)
UpdateRoot ==
  \E r \in Roots, fields \in SUBSET {"title", "link", "other"}, v \in Values,
     ns \in SUBSET Nodes :
    LET d == RootUpdate(r, fields, v, ns)
        changed == HasChanges(d, fields)
    IN /\ now.title[r] # Gone /\ fields # {}
       /\ "title" \in fields \/ v = 0
       /\ IF "link" \in fields THEN rel.kind = "manyHasOne" ELSE ns = {}
       /\ Consistent(d)
       /\ Record(d, IF changed /\ fields \cap RootFields # {}
                    THEN {Event(r, "update", "root", r)} ELSE {},
                 None, IF changed THEN {r} ELSE {})
       /\ UNCHANGED dead

(* BeforeUpdateEvent of a node finds the roots the relation leaves,          *)
(* AfterUpdateEvent those it leads to; both count only when the update has   *)
(* changed something, which for the former shows at the commit.              *)
Left(n, fields) == IF fields \cap NodeRelations # {} THEN RootsOf(now, n) ELSE {}
Reached(n, fields, d) == IF fields \cap NodeFields # {} THEN RootsOf(d, n) ELSE {}
NodeUpdatedLate(n, fields, d) ==
  IF HasChanges(d, fields) THEN Of(Reached(n, fields, d), "update", "node", n) ELSE {}
NodeUpdatedAnyway(n, fields, d) ==
  Of(Left(n, fields), "update", "node", n) \cup NodeUpdatedLate(n, fields, d)
NodeUpdated(n, fields, d) ==
  IF HasChanges(d, fields)
  THEN Of(Left(n, fields) \cup Reached(n, fields, d), "update", "node", n) ELSE {}
UpdateNode ==
  \E n \in Nodes, fields \in SUBSET {"name", "link", "other"}, v \in Values,
     rs \in SUBSET Roots :
    LET d == NodeUpdate(n, fields, v, rs)
    IN /\ now.name[n] # Gone /\ fields # {}
       /\ "name" \in fields \/ v = 0
       /\ IF "link" \in fields THEN rel.kind = "oneHasMany" ELSE rs = {}
       /\ Consistent(d)
       /\ Record(d, NodeUpdated(n, fields, d), None,
                 IF HasChanges(d, fields) THEN RootsOf(now, n) \cup RootsOf(d, n) ELSE {})
       /\ UNCHANGED dead

(* AfterJunctionUpdateEvent: junctionHandler.  Under a predicate the         *)
(* disconnect takes a row that was not there for a deleted one.              *)
Connect == \E r \in Roots, n \in Nodes :
  LET d == [now EXCEPT !.links = @ \cup {<<r, n>>}]
  IN /\ rel.kind = "manyHasMany" /\ Consistent(d)
     /\ Record(d, IF d # now THEN {Event(r, "connect", "node", n)} ELSE {}, None,
               IF d # now THEN {r} ELSE {})
     /\ UNCHANGED dead
Disconnect == \E r \in Roots, n \in Nodes :
  LET d == [now EXCEPT !.links = @ \ {<<r, n>>}]
  IN /\ rel.kind = "manyHasMany" /\ now.title[r] # Gone /\ now.name[n] # Gone
     /\ Record(d, IF d # now \/ rel.restricted THEN {Event(r, "disconnect", "node", n)} ELSE {},
               None, IF d # now THEN {r} ELSE {})
     /\ UNCHANGED dead

(* DeleteExecutor fires BeforeDeleteEvent for every row that goes and the    *)
(* update events for the rows whose column is set null, the row asked for    *)
(* first.  A root's own event carries its selection, taken while it exists.  *)
Deleted(rs, ns) ==
  [title |-> [r \in Roots |-> IF r \in rs THEN Gone ELSE now.title[r]],
   name |-> [n \in Nodes |-> IF n \in ns THEN Gone ELSE now.name[n]],
   links |-> {l \in now.links : l[1] \notin rs /\ l[2] \notin ns}]
RootsDeleted(rs) == {Event(r, "delete", "root", r) : r \in rs}
NodesDeleted(ns) == UNION {Of(RootsOf(now, n), "delete", "node", n) : n \in ns}

DeleteRoot == \E r \in Roots :
  LET held == IF rel.kind = "oneHasMany" THEN NodesOf(now, r) ELSE {}
      dropped == IF rel.onDelete = "cascade" THEN held ELSE {}
      cleared == IF rel.onDelete = "setNull"
                 THEN UNION {Of({r}, "update", "node", n) : n \in held} ELSE {}
  IN /\ now.title[r] # Gone
     /\ rel.onDelete = "restrict" => held = {}
     /\ Record(Deleted({r}, dropped), RootsDeleted({r}) \cup NodesDeleted(dropped) \cup cleared,
               Tree(now, r), {r})
     /\ dead' = dead \cup {r} \cup dropped
DeleteNode == \E n \in Nodes :
  LET held == IF rel.kind = "manyHasOne" THEN RootsOf(now, n) ELSE {}
      dropped == IF rel.onDelete = "cascade" THEN held ELSE {}
      cleared == IF rel.onDelete = "setNull" THEN held ELSE {}
  IN /\ now.name[n] # Gone
     /\ rel.onDelete = "restrict" => held = {}
     /\ Record(Deleted(dropped, {n}),
               NodesDeleted({n}) \cup RootsDeleted(dropped)
                 \cup {Event(r, "update", "root", r) : r \in cleared},
               None, RootsOf(now, n))
     /\ dead' = dead \cup {n} \cup dropped

Mutation == InsertRoot \/ InsertNode \/ UpdateRoot \/ UpdateNode \/ Connect \/ Disconnect
            \/ DeleteRoot \/ DeleteNode

-----------------------------------------------------------------------------
(* TriggerPayloadBuilder.buildWatchEventPayloads, once per trigger.  The     *)
(* selections of the roots with an event other than their own deletion are   *)
(* read in one query; the selection of the very first event goes before it.  *)
Ids == {e.id : e \in fired}
Own(e) == e.entity = "root" /\ e.operation = "delete"
FetchedCommitted(r) == IF r \in Ids /\ db.title[r] # Gone THEN Tree(db, r) ELSE None
Fetched(r) ==
  IF (\E e \in fired : e.id = r /\ ~Own(e)) /\ now.title[r] # Gone THEN Tree(now, r) ELSE None
Selection(r) == IF first \in {{}, {None}} THEN Fetched(r) ELSE CHOOSE shot \in first : TRUE
Payload(r) == [id |-> r, selection |-> Selection(r), events |-> {e \in fired : e.id = r}]

(* BeforeCommitEvent stores the payloads, then COMMIT.                       *)
Commit ==
  /\ count > 0
  /\ db' = now /\ outbox' = {Payload(r) : r \in Ids} /\ answer' = "ok"
  /\ Begin(now)
  /\ UNCHANGED rel

(* A statement of persist fails: EventManager.fire logs the error and goes   *)
(* on, the COMMIT of the aborted transaction rolls it back without an error. *)
PersistFails ==
  /\ count > 0 /\ fired # {}
  /\ outbox' = {} /\ answer' = "ok"
  /\ Begin(db)
  /\ UNCHANGED <<rel, db>>

(* A mutation fails, or the transaction is retried from its start.           *)
Rollback ==
  /\ count > 0
  /\ outbox' = {} /\ answer' = "rolledBack"
  /\ Begin(db)
  /\ UNCHANGED <<rel, db>>

Next == Mutation \/ Commit \/ PersistFails \/ Rollback
Spec == Init /\ [][Next]_vars

-----------------------------------------------------------------------------
(* Types; both images of the rows keep the foreign keys and the relation's   *)
(* arity; an event names a row of its entity.                                *)
TypeOK ==
  /\ rel \in Relations
  /\ db \in Rows /\ Consistent(db) /\ now \in Rows /\ Consistent(now)
  /\ dead \subseteq Roots \cup Nodes /\ touched \subseteq Roots
  /\ \A e \in fired : e.id \in Roots /\ e.row \in IF e.entity = "root" THEN {e.id} ELSE Nodes
  /\ (first = {}) <=> (fired = {})
  /\ count \in 0..Batch
  /\ \A p \in outbox : p.id \in Roots /\ p.events # {}
  /\ answer \in {"none", "ok", "rolledBack"}

(* No change goes unnoticed: a transaction that changes what the trigger     *)
(* watches of a root, by whatever rows and in whatever order, stores a       *)
(* payload for that root together with the change (TriggerHandler.attach,    *)
(* the listeners of TriggerListenersBuilder).                                *)
Complete ==
  [][\A r \in Roots : Tree(db', r) # Tree(db, r) => \E p \in outbox' : p.id = r]_vars

(* No payload without a cause: a root gets one only when a row of its tree   *)
(* was really changed; an update or a junction statement that changes        *)
(* nothing is silent (hasChanges) - except the disconnect under a predicate. *)
NoFalseAlarm ==
  [][\A p \in outbox' : (outbox' # outbox /\ ~rel.restricted) => p.id \in touched]_vars

(* The selection of a payload is read once the whole transaction has been    *)
(* done: a root that survives is shown as it is committed, unless the first  *)
(* event of the transaction was the deletion of a root.                      *)
SelectionFresh ==
  [][\A p \in outbox' :
       (outbox' # outbox /\ first = {None} /\ db'.title[p.id] # Gone)
         => p.selection = Tree(db', p.id)]_vars

(* The selection of a payload is the one of the row the payload is about:    *)
(* triggers.rootWatch.test.ts, 'triggers: root delete', expects the deleted  *)
(* row's own, the other tests the updated row's own.                         *)
SelectionOwn ==
  [][\A p \in outbox' :
       (outbox' # outbox /\ p.selection # None) => p.selection.id = p.id]_vars
================================================================================
