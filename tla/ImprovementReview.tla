--------------------------- MODULE ImprovementReview ---------------------------
(***************************************************************************)
(* Improvement proposals of the Codex app and their promotion to company   *)
(* rules (helix_codex_app/modules/memory/service.py and repository.py over *)
(* metacognition/improvement.py and memory/governed_memory.py).            *)
(*                                                                         *)
(* Each author has an append-only ledger file, the company another; a      *)
(* table projects the latest version of every proposal, a second one holds *)
(* the promotions, and the company's memory holds the rules.  A request    *)
(* loads the ledger it needs when it first uses it and keeps that copy.    *)
(* The handlers of one process run one at a time; another process on the   *)
(* same files interleaves with them at every access.                       *)
(***************************************************************************)
EXTENDS Naturals, FiniteSets, Sequences

CONSTANTS
  Accounts,      \* the people of one tenant
  Role,          \* account -> its role
  Deciders,      \* PROMOTION_APPROVER_ROLES
  Org,           \* the owner of the company's ledger
  Processes,     \* server processes: each handles one request at a time
  Window,        \* MAX_EVIDENCE_CASES: how many rules are looked through
  NoRow,         \* a proposal the projection does not hold
  MaxRecords,    \* bound: versions in one ledger
  MaxRequests,   \* bound: requests begun
  MaxCrashes     \* bound: requests that are cut off

ASSUME ReviewAssumption ==
  /\ Org \notin Accounts /\ Accounts \subseteq DOMAIN Role
  /\ {Window, MaxRecords, MaxRequests, MaxCrashes} \subseteq Nat

Owners == Accounts \cup {Org}
Ids == 1..MaxRecords
States == {"draft", "evaluated", "evaluated_failed", "approved", "rejected", "rolled_back"}

VARIABLES
  ledger,        \* owner -> the versions in its file
  row,           \* proposal id -> its row in the projection
  promo,         \* the promotions, in the order they were requested
  rules,         \* the company's memory: rules and the markers of retired ones,
                 \* each with the number it was given and the one it retires
  req,           \* process -> the request it handles
  behind,        \* owners whose projection a request left behind that was cut off or
                 \* overtaken, and which no rebuild has loaded since
  torn,          \* promotions left half done by a request cut off, or by two at once
  requests, crashes

vars == <<ledger, row, promo, rules, req, behind, torn, requests, crashes>>

NoRequest == [op |-> "none", at |-> "none", who |-> Org, id |-> 0, promo |-> 0,
              owner |-> Org, view |-> {}]

Init ==
  /\ ledger = [o \in Owners |-> <<>>]
  /\ row = [i \in Ids |-> NoRow]
  /\ promo = <<>> /\ rules = <<>>
  /\ req = [p \in Processes |-> NoRequest]
  /\ behind = {} /\ torn = {}
  /\ requests = 0 /\ crashes = 0
-------------------------------------------------------------------------------
(* The ledger: a view is what one engine holds of a file, by position.      *)

Versions(o, view, i) == {n \in view : ledger[o][n].id = i}

\* _reindex keeps the highest version, and of two the one read later.
Newest(o, view, i) ==
  CHOOSE n \in Versions(o, view, i) :
    \A k \in Versions(o, view, i) \ {n} :
      \/ ledger[o][k].version < ledger[o][n].version
      \/ ledger[o][k].version = ledger[o][n].version /\ k < n

Latest(o, view, i) == ledger[o][Newest(o, view, i)]

Whole(o) == DOMAIN ledger[o]
Held(o) == {ledger[o][n].id : n \in Whole(o)}

\* Mutant of Tip: a record is chained to itself.
TipNext(view) == Cardinality(view) + 1

Tip(view) == IF view = {} THEN 0 ELSE CHOOSE n \in view : \A k \in view : k <= n

Room(o) == Len(ledger[o]) < MaxRecords

\* _append: the next version, chained to the last record of the view.
Note(o, view, i, state, by, actor) ==
  LET prev == Versions(o, view, i)
      rec == [id |-> i, state |-> state, by |-> by, actor |-> actor, seen |-> Tip(view),
              version |-> IF prev = {} THEN 1 ELSE Latest(o, view, i).version + 1]
  IN ledger' = [ledger EXCEPT ![o] = Append(@, rec)]

\* The file and what is now known of it.
Seen(o, view) == view \cup {Len(ledger[o]) + 1}

Idle(p) == req[p].op = "none"
At(p, op, place) == req[p].op = op /\ req[p].at = place
Move(p, place) == req' = [req EXCEPT ![p].at = place]
End(p) == req' = [req EXCEPT ![p] = NoRequest]

Begin(p, r) ==
  /\ Idle(p) /\ requests < MaxRequests /\ requests' = requests + 1
  /\ req' = [req EXCEPT ![p] = r]

Unlogged == UNCHANGED <<behind, torn, crashes>>
-------------------------------------------------------------------------------
(* Proposals.                                                               *)

\* approval_violation: another person, in another role.
Independent(who, author) == who # author /\ Role[who] # Role[author]

\* _ensure_may_decide: the author may decide on its own proposal.
MayDecide(who, owner) == who = owner \/ Role[who] # Role[owner]

\* Mutant of Permitted: evaluate takes a proposal in any state.
PermittedAgain(op, who, owner, r) ==
  \/ op = "evaluate" /\ who = owner
  \/ op = "approve" /\ r.state = "evaluated" /\ Independent(who, r.by)
  \/ op = "reject" /\ MayDecide(who, owner)
  \/ op = "rollback" /\ MayDecide(who, owner) /\ r.state \in {"approved", "rolled_back"}
  \/ op = "promote" /\ who = owner /\ r.state = "approved"

Permitted(op, who, owner, r) ==
  \/ op = "evaluate" /\ who = owner /\ r.state \in {"draft", "evaluated"}
  \/ op = "approve" /\ r.state = "evaluated" /\ Independent(who, r.by)
  \/ op = "reject" /\ MayDecide(who, owner)
  \/ op = "rollback" /\ MayDecide(who, owner) /\ r.state \in {"approved", "rolled_back"}
  \/ op = "promote" /\ who = owner /\ r.state = "approved"

\* A new proposal is numbered after the records of its author's ledger.
Propose(p, who) ==
  /\ Room(who)
  /\ Begin(p, [NoRequest EXCEPT !.op = "propose", !.at = "append", !.who = who, !.owner = who,
                                !.id = Len(ledger[who]) + 1, !.view = Whole(who)])
  /\ UNCHANGED <<ledger, row, promo, rules>> /\ Unlogged

\* The owner is looked up in the projection, its ledger is loaded, and the
\* request goes on if the latest version there permits it; otherwise it raises.
Open(p, who, op, i) ==
  /\ row[i] # NoRow
  /\ LET o == row[i].owner IN
     /\ Room(IF op = "promote" THEN Org ELSE o)
     /\ Permitted(op, who, o, Latest(o, Whole(o), i))
     /\ Begin(p, [NoRequest EXCEPT !.op = op, !.at = IF op = "promote" THEN "load" ELSE "append",
                                   !.who = who, !.owner = o, !.id = i, !.view = Whole(o)])
  /\ UNCHANGED <<ledger, row, promo, rules>> /\ Unlogged

Outcomes(op) ==
  CASE op = "propose"  -> {"draft"}
    [] op = "evaluate" -> {"evaluated", "evaluated_failed"}
    [] op = "approve"  -> {"approved"}
    [] op = "reject"   -> {"rejected"}
    [] op = "rollback" -> {"rolled_back"}
    [] OTHER -> {}

AppendVersion(p, state) ==
  LET r == req[p] IN
  /\ r.at = "append" /\ state \in Outcomes(r.op)
  /\ Note(r.owner, r.view, r.id, state, r.owner, r.who)
  /\ req' = [req EXCEPT ![p].at = "sync", ![p].view = Seen(r.owner, r.view)]
  /\ UNCHANGED <<row, promo, rules, requests>> /\ Unlogged

\* upsert_proposal: a row that is there keeps its author.
Upserted(rows, i, o, rec) ==
  [rows EXCEPT ![i] = [owner |-> IF @ = NoRow THEN o ELSE @.owner,
                       state |-> rec.state, version |-> rec.version]]

\* Mutant of Sync: the projection is refreshed only when the row is new.
SyncOnce(p) ==
  LET r == req[p] IN
  /\ r.at = "sync"
  /\ row' = IF row[r.id] = NoRow THEN Upserted(row, r.id, r.owner, Latest(r.owner, r.view, r.id))
            ELSE row
  /\ End(p)
  /\ UNCHANGED <<ledger, promo, rules, requests>> /\ Unlogged

Sync(p) ==
  LET r == req[p]
      rec == Latest(r.owner, r.view, r.id)
  IN
  /\ r.at = "sync"
  /\ row' = Upserted(row, r.id, r.owner, rec)
  /\ behind' = IF rec = Latest(r.owner, Whole(r.owner), r.id) THEN behind
               ELSE behind \cup {r.owner}
  /\ End(p)
  /\ UNCHANGED <<ledger, promo, rules, torn, requests, crashes>>

\* rebuild_projection: first the rows of the ledger go, then the ledger is loaded.
Rebuild(p, o) ==
  /\ Begin(p, [NoRequest EXCEPT !.op = "rebuild", !.at = "list", !.who = o, !.owner = o])
  /\ row' = [i \in Ids |-> IF row[i] # NoRow /\ row[i].owner = o THEN NoRow ELSE row[i]]
  /\ UNCHANGED <<ledger, promo, rules>> /\ Unlogged

\* The versions to write: the latest of every proposal there is now.
ListLedger(p) ==
  LET o == req[p].owner
      due == {Newest(o, Whole(o), i) : i \in Held(o)}
  IN
  /\ req[p].at = "list"
  /\ IF due = {} THEN End(p)
     ELSE req' = [req EXCEPT ![p].at = "replay", ![p].view = due]
  /\ behind' = behind \ {o}
  /\ UNCHANGED <<ledger, row, promo, rules, torn, requests, crashes>>

\* One of them is written and committed, whatever the ledger holds by now.
Replay(p) ==
  LET r == req[p]
      o == r.owner
  IN
  /\ r.at = "replay"
  /\ \E n \in r.view :
       LET rec == ledger[o][n] IN
       /\ row' = Upserted(row, rec.id, o, rec)
       /\ behind' = IF rec = Latest(o, Whole(o), rec.id) THEN behind ELSE behind \cup {o}
       /\ IF r.view = {n} THEN End(p) ELSE req' = [req EXCEPT ![p].view = @ \ {n}]
  /\ UNCHANGED <<ledger, promo, rules, torn, requests, crashes>>
-------------------------------------------------------------------------------
(* Promotions.                                                              *)

LoadOrg(p) ==
  /\ At(p, "promote", "load")
  /\ req' = [req EXCEPT ![p].at = "orgpropose", ![p].view = Whole(Org)]
  /\ UNCHANGED <<ledger, row, promo, rules, requests>> /\ Unlogged

OrgPropose(p) ==
  LET r == req[p] IN
  /\ At(p, "promote", "orgpropose") /\ Room(Org)
  /\ Note(Org, r.view, Cardinality(r.view) + 1, "draft", r.who, r.who)
  /\ req' = [req EXCEPT ![p].at = "orgevaluate", ![p].view = Seen(Org, r.view),
                        ![p].promo = Cardinality(r.view) + 1]
  /\ UNCHANGED <<row, promo, rules, requests>> /\ Unlogged

OrgEvaluate(p, state) ==
  LET r == req[p] IN
  /\ At(p, "promote", "orgevaluate") /\ Room(Org)
  /\ Note(Org, r.view, r.promo, state, r.who, r.who)
  /\ Move(p, "insert")
  /\ UNCHANGED <<row, promo, rules, requests>> /\ Unlogged

InsertPromotion(p) ==
  LET r == req[p] IN
  /\ At(p, "promote", "insert")
  /\ promo' = Append(promo, [source |-> r.id, org |-> r.promo, state |-> "requested"])
  /\ End(p)
  /\ UNCHANGED <<ledger, row, rules, requests>> /\ Unlogged

\* The guards of approve_promotion, reject_promotion and rollback_promotion, and
\* of org_approve; the author is the one the projection names.
MaySettle(op, who, k) ==
  LET o == row[promo[k].source].owner
      r == Latest(Org, Whole(Org), promo[k].org)
  IN
  /\ row[promo[k].source] # NoRow
  /\ \/ op = "settle_no" /\ promo[k].state = "requested" /\ who # o /\ Role[who] \in Deciders
     \/ /\ op = "settle_yes" /\ promo[k].state = "requested" /\ who # o /\ Role[who] \in Deciders
        /\ r.state = "evaluated" /\ Independent(who, r.by)
     \/ op = "undo" /\ promo[k].state = "approved"

OrgOutcome == [settle_yes |-> "approved", settle_no |-> "rejected", undo |-> "rolled_back"]

Settle(p, who, op, k) ==
  /\ Room(Org) /\ MaySettle(op, who, k)
  /\ Begin(p, [NoRequest EXCEPT !.op = op, !.at = "orgappend", !.who = who, !.id = promo[k].org,
                                !.promo = k, !.view = Whole(Org)])
  /\ torn' = IF \E q \in Processes \ {p} : req[q].op \in DOMAIN OrgOutcome /\ req[q].promo = k
             THEN torn \cup {k} ELSE torn
  /\ UNCHANGED <<ledger, row, promo, rules, behind, crashes>>

OrgAppend(p) ==
  LET r == req[p] IN
  /\ r.at = "orgappend" /\ Room(Org)
  /\ Note(Org, r.view, r.id, OrgOutcome[r.op], Latest(Org, r.view, r.id).by, r.who)
  /\ Move(p, CASE r.op = "settle_yes" -> "rule" [] r.op = "settle_no" -> "update"
               [] r.op = "undo" -> "retire")
  /\ UNCHANGED <<row, promo, rules, requests>> /\ Unlogged

\* The company's memory is loaded when a request first uses it (record_org), and
\* commits to the index of the stores follow before the rule is written.
LoadRules(p) ==
  /\ At(p, "settle_yes", "rule")
  /\ req' = [req EXCEPT ![p].at = "record", ![p].view = DOMAIN rules]
  /\ UNCHANGED <<ledger, row, promo, rules, requests>> /\ Unlogged

\* A record is numbered after those its writer has loaded.
Numbered(view, k, target) == [promo |-> k, rid |-> Cardinality(view) + 1, target |-> target]

\* Mutant of AddRule: the rule is recorded again by a second attempt.
AddTwice(p) ==
  LET entry == Numbered(req[p].view, req[p].promo, 0) IN
  /\ At(p, "settle_yes", "record")
  /\ rules' = rules \o <<entry, [entry EXCEPT !.rid = @ + 1]>>
  /\ Move(p, "update")
  /\ UNCHANGED <<ledger, row, promo, requests>> /\ Unlogged

AddRule(p) ==
  /\ At(p, "settle_yes", "record")
  /\ rules' = Append(rules, Numbered(req[p].view, req[p].promo, 0))
  /\ Move(p, "update")
  /\ UNCHANGED <<ledger, row, promo, requests>> /\ Unlogged

\* A marker deletes the last record that bears the number it names.
Struck(n, view) == \E m \in view : rules[m].target = rules[n].rid

Deleted(view) ==
  {n \in view : Struck(n, view) /\ \A k \in view : rules[k].rid = rules[n].rid => k <= n}

Standing(view) == view \ Deleted(view)

\* read_org: the newest Window of the records that are not deleted.
Visible(view) ==
  {n \in Standing(view) : Cardinality({k \in Standing(view) : n <= k}) <= Window}

Claims(k, view) == {n \in Visible(view) : rules[n].promo = k}

\* The memory is loaded and the rule looked for; no rule is no error, nor is one
\* whose number is deleted already; of several, none is guessed at, and the request
\* raises.
LookUp(p) ==
  LET found == Claims(req[p].promo, DOMAIN rules) IN
  /\ At(p, "undo", "retire")
  /\ IF Cardinality(found) > 1 THEN End(p)
     ELSE IF \A n \in found : Struck(n, DOMAIN rules) THEN Move(p, "update")
     ELSE req' = [req EXCEPT ![p].at = "mark", ![p].view = DOMAIN rules]
  /\ UNCHANGED <<ledger, row, promo, rules, requests>> /\ Unlogged

\* delete: the marker names the rule by its number.
Retire(p) ==
  LET r == req[p] IN
  /\ At(p, "undo", "mark")
  /\ \E n \in Claims(r.promo, r.view) :
       rules' = Append(rules, Numbered(r.view, 0, rules[n].rid))
  /\ Move(p, "update")
  /\ UNCHANGED <<ledger, row, promo, requests>> /\ Unlogged

UpdatePromotion(p) ==
  LET r == req[p] IN
  /\ r.at = "update"
  /\ promo' = [promo EXCEPT ![r.promo].state = OrgOutcome[r.op]]
  /\ End(p)
  /\ UNCHANGED <<ledger, row, rules, requests>> /\ Unlogged

\* A request is cut off: its process dies, or its next access fails and it raises.
Crash(p) ==
  LET r == req[p] IN
  /\ ~Idle(p) /\ crashes < MaxCrashes /\ crashes' = crashes + 1
  /\ behind' = IF r.at \in {"sync", "list", "replay"} THEN behind \cup {r.owner} ELSE behind
  /\ torn' = IF r.at \in {"rule", "record", "retire", "mark", "update"}
             THEN torn \cup {r.promo} ELSE torn
  /\ End(p)
  /\ UNCHANGED <<ledger, row, promo, rules, requests>>

Next ==
  \E p \in Processes :
    \/ \E who \in Accounts :
         \/ Propose(p, who) \/ Rebuild(p, who)
         \/ \E i \in Ids, op \in {"evaluate", "approve", "reject", "rollback", "promote"} :
              Open(p, who, op, i)
         \/ \E k \in DOMAIN promo, op \in {"settle_yes", "settle_no", "undo"} :
              Settle(p, who, op, k)
    \/ \E state \in States : AppendVersion(p, state)
    \/ Sync(p) \/ ListLedger(p) \/ Replay(p) \/ LoadOrg(p) \/ OrgPropose(p)
    \/ \E state \in {"evaluated", "evaluated_failed"} : OrgEvaluate(p, state)
    \/ InsertPromotion(p) \/ OrgAppend(p) \/ UpdatePromotion(p)
    \/ LoadRules(p) \/ AddRule(p) \/ LookUp(p) \/ Retire(p)
    \/ Crash(p)

Spec == Init /\ [][Next]_vars
-------------------------------------------------------------------------------
(* Properties.                                                              *)

LedgerRecord ==
  [id : Ids, state : States, by : Owners, actor : Accounts, seen : Nat, version : Ids]

Request ==
  [op : {"none", "propose", "evaluate", "approve", "reject", "rollback", "promote",
         "rebuild", "settle_yes", "settle_no", "undo"},
   at : {"none", "append", "sync", "list", "replay", "load", "orgpropose", "orgevaluate",
         "insert", "orgappend", "rule", "record", "retire", "mark", "update"},
   who : Owners, id : Ids \cup {0}, promo : Nat, owner : Owners, view : SUBSET Nat]

TypeOK ==
  /\ ledger \in [Owners -> Seq(LedgerRecord)]
  /\ \A o \in Owners : \A n \in DOMAIN ledger[o] : ledger[o][n].seen < n
  /\ row \in [Ids -> {NoRow} \cup [owner : Accounts, state : States, version : Ids]]
  /\ promo \in Seq([source : Ids, org : Ids,
                    state : {"requested", "approved", "rejected", "rolled_back"}])
  /\ rules \in Seq([promo : {0} \cup DOMAIN promo, rid : Nat \ {0}, target : Nat])
  /\ req \in [Processes -> Request]
  /\ behind \subseteq Accounts /\ torn \subseteq DOMAIN promo
  /\ requests \in Nat /\ crashes \in Nat

\* Another process appended to the file between the load and the append.
Forked(o) == \E n \in DOMAIN ledger[o] : ledger[o][n].seen # n - 1

Quiet == \A p \in Processes : Idle(p)

RowIsCurrent(o, i) ==
  LET r == Latest(o, Whole(o), i)
  IN row[i] = [owner |-> o, state |-> r.state, version |-> r.version]

\* Between requests every proposal has its row, with the state and the version its
\* ledger has (_sync after every transition), unless a request wrote a version that
\* was the latest no longer, or was cut off before its write, and no rebuild loaded
\* the ledger since; or unless two authors share the proposal's number: each of them
\* numbers its own from 1, and a number is the key of the row.
ProjectionFollowsUnlessShared ==
  Quiet => \A o \in Accounts \ behind : \A i \in Held(o) :
    (\A a \in Accounts \ {o} : i \notin Held(a)) => RowIsCurrent(o, i)

\* In a ledger only one process appended to, a proposal is approved right after it
\* passed an evaluation, by another person in another role, and never again once
\* it was refused, rolled back or failed, in whatever order requests come.
ApprovalsEarned ==
  \A o \in Owners : ~Forked(o) => \A n \in DOMAIN ledger[o] :
    LET r == ledger[o][n]
        before == {ledger[o][k] : k \in {j \in 1..(n - 1) : ledger[o][j].id = r.id}}
    IN r.state = "approved" =>
         /\ Role[r.actor] # Role[r.by]
         /\ \E q \in before : q.state = "evaluated" /\ q.version = r.version - 1
         /\ \A q \in before : q.state \in {"draft", "evaluated"}

\* Another record of the company's memory bears the number of a promotion's rule:
\* one process loaded the memory before another one's record was there.
SharedRule(k) ==
  \E n, m \in DOMAIN rules : n # m /\ rules[n].promo = k /\ rules[m].rid = rules[n].rid

\* Between requests a promotion that stands approved has one rule, and any other
\* has none, in whatever order promotions are approved and rolled back by several
\* processes: unless a request for it was cut off or overlapped with another one,
\* or its rule shares its number, or, for a rule to retire, the company's memory
\* is longer than what is looked through.
RulesStand ==
  Quiet => \A k \in DOMAIN promo \ torn :
    LET standing == Standing(DOMAIN rules)
        own == {n \in standing : rules[n].promo = k}
    IN \/ SharedRule(k)
       \/ promo[k].state = "approved" /\ Cardinality(own) = 1
       \/ promo[k].state # "approved" /\ own = {}
       \/ promo[k].state = "rolled_back" /\ Cardinality(standing) > Window
===============================================================================
