------------------------------ MODULE Purchasing ------------------------------
(***************************************************************************)
(* Purchase orders.  The inventory monitors (runtime::monitors) compare     *)
(* stock with par levels and keep one draft order per vendor                *)
(* (scoped_agents::check_one, purchasing::prepare_drafts), while operators  *)
(* record stock movements (StockLedger), edit suppliers, ordering rules and *)
(* the purchasing policy (vendors.rs), and approve or reject orders         *)
(* (purchasing::decide_versioned).                                          *)
(*                                                                          *)
(* A check is one REPEATABLE READ transaction: it computes on the snapshot  *)
(* its first statement took, and fails when a row it locks was written      *)
(* after that snapshot.  It is three steps, because everything else may     *)
(* commit between them.  The other transactions lock the row they read      *)
(* first and are one step each.                                             *)
(*                                                                          *)
(* Operators fill in forms: "form" is one dialog left open while others     *)
(* work.  An edit comes from a dialog opened just before, or from that one. *)
(***************************************************************************)
EXTENDS StockLedger, Functions, FiniteSetsExt

CONSTANTS
  Vendor,        \* suppliers, numbered in the order of their names
  Monitor,       \* monitor loops, over all processes
  Par,           \* Par[i]: the par level of i
  Terms,         \* the ordering terms operators give: [pack, price, minimum, target]
  Policies,      \* the policies operators save: [auto, limit]
  Contact,       \* sets of contact details, e-mail and phone, a vendor may have
  Known,         \* the vendors that exist at the start
  Preset,        \* Preset[i]: the vendor of i's rule at the start, or None
  PresetTerms,   \* and the terms of those rules
  MaxCheckItems, \* MAX_CHECK_ITEMS
  MaxOrders,     \* bound: orders ever drafted
  MaxRevision,   \* bound: data changes
  Edits          \* bound: what is edited, as kinds and keys: <<"rule", <<i, v>>>>, ...

Number == 1..MaxOrders
OrderStatus == {"draft", "approved", "rejected", "withdrawn"}

\* vendors, vendor_items and purchasing_policies; a rule's "born" is history.
VendorRows == [contact : Contact, discarded : BOOLEAN, version : Nat \ {0}]
RuleRows == [terms : Terms, preferred : BOOLEAN, version : Nat \ {0}, born : Nat]
PolicyRows == [limits : Policies, version : Nat \ {0}]

ASSUME NoneIsNoRow == None \notin VendorRows \cup RuleRows \cup PolicyRows

ASSUME PurchasingConstantsOK ==
  /\ Vendor \subseteq Nat
  /\ None \notin Vendor \cup Monitor
  /\ Par \in [Item -> Nat]
  /\ Known \subseteq Vendor
  /\ Preset \in [Item -> Known \cup {None}]
  /\ PresetTerms \in Terms
  /\ \A t \in Terms : /\ t.pack \in Nat \ {0} /\ t.minimum \in Nat \ {0}
                      /\ t.target = None \/ t.target \in Nat
  /\ \A p \in Policies : p.limit = None \/ p.limit >= p.auto
  /\ IsFiniteSet(Vendor)
  /\ Contact \ {{}} # {}
  /\ MaxCheckItems \in Nat /\ MaxOrders \in Nat /\ MaxRevision \in Nat

ASSUME EditsOK ==
  \A d \in Edits : /\ d[1] = "vendor" => d[2] \in Vendor
                   /\ d[1] = "rule" => d[2] \in Item \X Vendor

VARIABLES
  rule,      \* vendor_items: rule[i][v], or None
  vendor,    \* vendors: the columns that matter here, or None
  policy,    \* purchasing_policies: the row, or None
  revision,  \* agent_data_revisions.revision of inventory
  enabled,   \* scoped_agents.enabled of inventory
  checked,   \* scoped_agents.checked_revision of inventory
  check,     \* by monitor: the check transaction under way, or None
  orders,    \* purchase_orders and their lines, by number; status "none": no row yet
  form       \* the dialog left open, or None

catalogue == <<rule, vendor, policy>>
agent == <<enabled, checked, check>>
vars == <<ledger, catalogue, revision, agent, orders, form>>

PurchasingInit ==
  /\ LedgerInit
  /\ rule = [i \in Item |-> [v \in Vendor |->
       IF Preset[i] = v
       THEN [terms |-> PresetTerms, preferred |-> TRUE, version |-> 1, born |-> 0]
       ELSE None]]
  /\ vendor = [v \in Vendor |->
       IF v \in Known
       THEN [contact |-> CHOOSE c \in Contact \ {{}} : TRUE, discarded |-> FALSE, version |-> 1]
       ELSE None]
  /\ policy = None
  /\ revision = 0
  /\ enabled = TRUE
  /\ checked = -1
  /\ check = [m \in Monitor |-> None]
  /\ orders = [n \in Number |-> [status |-> "none"]]
  /\ form = None

-----------------------------------------------------------------------------
(* The ordering rule, on a snapshot s of the database.                      *)

Snapshot == [balance |-> balance, rule |-> rule, vendor |-> vendor, policy |-> policy,
             revision |-> revision, orders |-> orders]

CeilDiv(a, b) == (a + b - 1) \div b
AtLeast(S) == CHOOSE x \in S : \A y \in S : x >= y

PacksToOrder(current, target, onOrder, t) ==
  AtLeast({CeilDiv(target - current - onOrder, t.pack), t.minimum, 1})

Target(i, t) == IF t.target = None THEN Par[i] ELSE AtLeast({t.target, Par[i]})

InStatus(os, st) == {n \in Number : os[n].status = st}

\* The approved orders that have a line for i, and the units they bring.
Counted(os, i) == {n \in InStatus(os, "approved") : i \in DOMAIN os[n].lines}
OnOrder(os, i) ==
  SumFunction([n \in Counted(os, i) |-> os[n].lines[i].packs * os[n].lines[i].pack])

BelowPar(s) == {i \in Item : Par[i] > 0 /\ s.balance[i] < Par[i]}

\* ORDER BY i.name ... LIMIT: the first MaxCheckItems of them.
Examined(s) ==
  {i \in BelowPar(s) : Cardinality({j \in BelowPar(s) : j < i}) < MaxCheckItems}

\* v is the preferred, undiscarded and priced supplier of i.
Supplies(s, v, i) ==
  /\ s.rule[i][v] # None
  /\ s.rule[i][v].preferred
  /\ s.rule[i][v].terms.price # None
  /\ ~s.vendor[v].discarded

Short(s, i, t) == Target(i, t) - s.balance[i] - OnOrder(s.orders, i) > 0

NewLine(s, v, i) ==
  LET t == s.rule[i][v].terms IN
  [packs   |-> PacksToOrder(s.balance[i], Target(i, t), OnOrder(s.orders, i), t),
   pack    |-> t.pack,
   price   |-> t.price,
   balance |-> s.balance[i],
   target  |-> Target(i, t),
   onOrder |-> OnOrder(s.orders, i)]

\* The lines v should be asked for, out of the items of a set.
LinesFor(s, v, items) ==
  [i \in {j \in items : Supplies(s, v, j) /\ Short(s, j, s.rule[j][v].terms)} |->
     NewLine(s, v, i)]

Subtotal(lines) == MapThenSumSet(LAMBDA i : lines[i].packs * lines[i].price, DOMAIN lines)

PolicyIn(s) == IF s.policy = None THEN [auto |-> 0, limit |-> None] ELSE s.policy.limits

Exceeds(limits, total) == limits.limit # None /\ total > limits.limit

ApprovalReason(limits, total, contact) ==
  CASE Exceeds(limits, total)                      -> "exceeds_approval_limit"
    [] ~Exceeds(limits, total) /\ contact = {}     -> "vendor_details_incomplete"
    [] ~Exceeds(limits, total) /\ contact # {} /\ limits.auto > 0 /\ total <= limits.auto
                                                   -> "within_auto_approval_limit"
    [] ~Exceeds(limits, total) /\ contact # {} /\ limits.auto > 0 /\ total > limits.auto
                                                   -> "exceeds_auto_approval_limit"
    [] OTHER                                       -> "manual_approval_required"

-----------------------------------------------------------------------------
(* prepare_drafts, on the snapshot c.s and the lines c.lines computed from it.  *)

Asked(s) == [v \in Vendor |-> LinesFor(s, v, Examined(s))]

Groups(c) == {v \in Vendor : DOMAIN c.lines[v] # {}}

DraftsOf(os, v) == {n \in InStatus(os, "draft") : os[n].vendor = v}

\* A vendor's orders are decided one after the other, so the last rejected is the newest.
LastRejected(os, v) ==
  LET R == {n \in InStatus(os, "rejected") : os[n].vendor = v}
  IN IF R = {} THEN None ELSE AtLeast(R)

\* Mutant: the first rejected order is compared.
HeldByFirst(c, v) ==
  LET R == {n \in InStatus(c.s.orders, "rejected") : c.s.orders[n].vendor = v} IN
  /\ DraftsOf(c.s.orders, v) = {}
  /\ R # {}
  /\ \E n \in R : (\A m \in R : n <= m) /\ c.s.orders[n].lines = c.lines[v]

\* "rejected_unchanged"
Held(c, v) ==
  LET r == LastRejected(c.s.orders, v)
  IN DraftsOf(c.s.orders, v) = {} /\ r # None /\ c.s.orders[r].lines = c.lines[v]

Fresh(c) == {v \in Groups(c) : DraftsOf(c.s.orders, v) = {} /\ ~Held(c, v)}

\* The orders there are.
Drafted == {n \in Number : orders[n].status # "none"}

\* The counter row: groups take numbers in the order of the vendors' names.
NumberFor(c, v) ==
  Cardinality(Drafted) + 1 + Cardinality({u \in Fresh(c) : u < v})

\* An order of v with the lines asked for; approved at once within the limit.
Prepared(c, v, version) ==
  LET lines == c.lines[v]
      reason == ApprovalReason(PolicyIn(c.s), Subtotal(lines), c.s.vendor[v].contact)
      auto == reason = "within_auto_approval_limit"
  IN [vendor   |-> v,
      lines    |-> lines,
      reason   |-> reason,
      revision |-> c.s.revision,
      status   |-> IF auto THEN "approved" ELSE "draft",
      kind     |-> IF auto THEN "automatic" ELSE None,
      version  |-> IF auto THEN version + 1 ELSE version,
      snapshot |-> IF auto THEN <<c.s.vendor[v].contact>> ELSE <<>>]

\* "unchanged" keeps the version, "revised" raises it.
Revised(c, o) ==
  Prepared(c, o.vendor,
           IF o.lines = c.lines[o.vendor] THEN o.version ELSE o.version + 1)

Withdrawn(c, o) == [o EXCEPT !.status = "withdrawn", !.revision = c.s.revision]

AfterCheck(c) ==
  LET fresh == Fresh(c)
      number == [v \in fresh |-> NumberFor(c, v)]
  IN [n \in Number |->
        IF n \in InStatus(c.s.orders, "draft")
        THEN IF c.s.orders[n].vendor \in Groups(c)
             THEN Revised(c, c.s.orders[n]) ELSE Withdrawn(c, c.s.orders[n])
        ELSE IF \E v \in fresh : n = number[v]
        THEN Prepared(c, CHOOSE v \in fresh : n = number[v], 1)
        ELSE orders[n]]

-----------------------------------------------------------------------------
(* check_one *)

CheckAt(m, phase) == check[m] # None /\ check[m].phase = phase

Started == [phase |-> "read", s |-> Snapshot, lines |-> Asked(Snapshot)]

\* Mutant: the role's row is not locked.
CheckBeginUnlocked(m) ==
  /\ enabled
  /\ checked < revision
  /\ check[m] = None
  /\ check' = [check EXCEPT ![m] = Started]
  /\ UNCHANGED <<ledger, catalogue, revision, enabled, checked, orders, form>>

\* The role's row is locked from the first statement to the commit; others skip it.
CheckBegin(m) ==
  /\ enabled
  /\ checked < revision
  /\ \A o \in Monitor : check[o] = None
  /\ check' = [check EXCEPT ![m] = Started]
  /\ UNCHANGED <<ledger, catalogue, revision, enabled, checked, orders, form>>

\* Mutant: READ COMMITTED, so the drafts are read again when they are locked.
CheckLockCommitted(m) ==
  /\ CheckAt(m, "read")
  /\ check' = [check EXCEPT ![m].phase = "locked", ![m].s.orders = orders]
  /\ UNCHANGED <<ledger, catalogue, revision, enabled, checked, orders, form>>

\* The existing drafts FOR UPDATE: one that changed since the snapshot is a
\* serialization failure, and the check starts over in the next cycle.
CheckLock(m) ==
  /\ CheckAt(m, "read")
  /\ \A n \in InStatus(check[m].s.orders, "draft") : orders[n] = check[m].s.orders[n]
  /\ check' = [check EXCEPT ![m].phase = "locked"]
  /\ UNCHANGED <<ledger, catalogue, revision, enabled, checked, orders, form>>

CheckCommit(m) ==
  /\ CheckAt(m, "locked")
  /\ \A v \in Fresh(check[m]) : NumberFor(check[m], v) <= MaxOrders
  /\ orders' = AfterCheck(check[m])
  /\ checked' = check[m].s.revision
  /\ check' = [check EXCEPT ![m] = None]
  /\ UNCHANGED <<ledger, catalogue, revision, enabled, form>>

\* A serialization failure, a lost connection or the stop signal.
CheckFails(m) ==
  /\ check[m] # None
  /\ check' = [check EXCEPT ![m] = None]
  /\ UNCHANGED <<ledger, catalogue, revision, enabled, checked, orders, form>>

\* Mutant: a pause does not wait.
SwitchNoWait(on) ==
  /\ <<"switch", None>> \in Edits
  /\ enabled # on
  /\ enabled' = on
  /\ UNCHANGED <<ledger, catalogue, revision, checked, check, orders, form>>

\* The switch's UPDATE waits for the row a check has locked.
Switch(on) ==
  /\ <<"switch", None>> \in Edits
  /\ enabled # on
  /\ \A m \in Monitor : check[m] = None
  /\ enabled' = on
  /\ UNCHANGED <<ledger, catalogue, revision, checked, check, orders, form>>

-----------------------------------------------------------------------------
(* Dialogs, and the edits submitted from them.                              *)

VersionOf(row) == IF row = None THEN 0 ELSE row.version

\* The row a dialog shows: an order, a vendor, the policy, or the rule of <<i, v>>.
RowAt(kind, key) ==
  CASE kind = "order"  -> orders[key]
    [] kind = "vendor" -> vendor[key]
    [] kind = "policy" -> policy
    [] kind = "rule"   -> rule[key[1]][key[2]]

Openable(kind, key) ==
  CASE kind = "order"  -> key \in InStatus(orders, "draft")
    [] kind = "vendor" -> vendor[key] # None
    [] kind = "rule"   -> vendor[key[2]] # None
    [] kind = "policy" -> TRUE
    [] OTHER           -> FALSE

OpenForm ==
  /\ form = None
  /\ \E d \in Edits :
       /\ Openable(d[1], d[2])
       /\ form' = [kind |-> d[1], key |-> d[2], row |-> RowAt(d[1], d[2])]
  /\ UNCHANGED <<ledger, catalogue, revision, agent, orders>>

\* The dialog is closed, or its submission was answered with a conflict.
CloseForm ==
  /\ form # None
  /\ form' = None
  /\ UNCHANGED <<ledger, catalogue, revision, agent, orders>>

\* The edit carries the version of a dialog opened just now, or of the open one.
Submit(kind, key) ==
  \/ form' = form
  \/ /\ form # None
     /\ form.kind = kind
     /\ form.key = key
     /\ VersionOf(form.row) = VersionOf(RowAt(kind, key))
     /\ form' = None

\* The triggers of mark_agent_data_changed commit with the data.
DataChanges ==
  /\ revision < MaxRevision
  /\ revision' = revision + 1

CreateVendor(v, c) ==
  /\ <<"create", v>> \in Edits
  /\ vendor[v] = None
  /\ vendor' = [vendor EXCEPT ![v] = [contact |-> c, discarded |-> FALSE, version |-> 1]]
  /\ DataChanges
  /\ UNCHANGED <<ledger, rule, policy, agent, orders, form>>

UpdateVendor(v, c) ==
  /\ <<"vendor", v>> \in Edits
  /\ vendor[v] # None
  /\ Submit("vendor", v)
  /\ vendor' = [vendor EXCEPT ![v].contact = c, ![v].version = @ + 1]
  /\ DataChanges
  /\ UNCHANGED <<ledger, rule, policy, agent, orders>>

\* outreach::candidate_action; approve_candidate also shortlists the vendor.
JudgeVendor(v, discarded) ==
  /\ <<"judge", v>> \in Edits
  /\ vendor[v] # None
  /\ vendor' = [vendor EXCEPT ![v].discarded = discarded, ![v].version = @ + 1]
  /\ DataChanges
  /\ UNCHANGED <<ledger, rule, policy, agent, orders, form>>

\* research::save finds a vendor of an earlier search again: it fills in the
\* details the vendor lacks, if any, and leaves the version.  A vendor an
\* operator created it leaves alone.
ContactFound(v, c) ==
  /\ <<"research", v>> \in Edits
  /\ v \in Known
  /\ ~vendor[v].discarded
  /\ vendor[v].contact \subseteq c
  /\ vendor' = [vendor EXCEPT ![v].contact = c]
  /\ DataChanges
  /\ UNCHANGED <<ledger, rule, policy, agent, orders, form>>

\* Mutant: the vendor that gives up the place keeps its rule's version.
AssignedSilently(rules, v, t) ==
  [u \in Vendor |->
     IF u = v
     THEN IF rules[v] = None
          THEN [terms |-> t, preferred |-> TRUE, version |-> 1, born |-> revision + 1]
          ELSE [rules[v] EXCEPT !.terms = t, !.preferred = TRUE, !.version = @ + 1]
     ELSE IF rules[u] # None THEN [rules[u] EXCEPT !.preferred = FALSE] ELSE None]

\* The rules of an item once v is its preferred vendor; any other gives up the place.
Assigned(rules, v, t) ==
  [u \in Vendor |->
     IF u = v
     THEN IF rules[v] = None
          THEN [terms |-> t, preferred |-> TRUE, version |-> 1, born |-> revision + 1]
          ELSE [rules[v] EXCEPT !.terms = t, !.preferred = TRUE, !.version = @ + 1]
     ELSE IF rules[u] # None /\ rules[u].preferred
     THEN [rules[u] EXCEPT !.preferred = FALSE, !.version = @ + 1]
     ELSE rules[u]]

Assign(i, v, t) ==
  /\ <<"rule", <<i, v>>>> \in Edits
  /\ vendor[v] # None
  /\ t.target # None => t.target >= Par[i]
  /\ \A x \in Call : ~HoldsItem(x, i)
  /\ Submit("rule", <<i, v>>)
  /\ rule' = [rule EXCEPT ![i] = Assigned(@, v, t)]
  /\ DataChanges
  /\ UNCHANGED <<ledger, vendor, policy, agent, orders>>

Unassign(i, v) ==
  /\ <<"rule", <<i, v>>>> \in Edits
  /\ rule[i][v] # None
  /\ \A x \in Call : ~HoldsItem(x, i)
  /\ Submit("rule", <<i, v>>)
  /\ rule' = [rule EXCEPT ![i][v] = None]
  /\ DataChanges
  /\ UNCHANGED <<ledger, vendor, policy, agent, orders>>

\* Mutant: no trigger on purchasing_policies.
UpdatePolicyQuietly(limits) ==
  /\ <<"policy", None>> \in Edits
  /\ Submit("policy", None)
  /\ VersionOf(policy) < MaxRevision
  /\ policy' = [limits |-> limits, version |-> VersionOf(policy) + 1]
  /\ UNCHANGED <<ledger, rule, vendor, revision, agent, orders>>

UpdatePolicy(limits) ==
  /\ <<"policy", None>> \in Edits
  /\ Submit("policy", None)
  /\ policy' = [limits |-> limits, version |-> VersionOf(policy) + 1]
  /\ DataChanges
  /\ UNCHANGED <<ledger, rule, vendor, agent, orders>>

\* A stock movement commits (StockLedger).
StockMoves(x) ==
  /\ Apply(x)
  /\ DataChanges
  /\ UNCHANGED <<catalogue, agent, orders, form>>

StockCall(x) ==
  /\ CallStep(x) \/ \E k \in Key, p \in Payload : Arrive(x, k, p)
  /\ UNCHANGED <<catalogue, revision, agent, orders, form>>

-----------------------------------------------------------------------------
(* decide_versioned *)

\* A check that has locked the drafts makes decisions wait for its commit.
LockedByCheck(n) ==
  \E m \in Monitor : CheckAt(m, "locked") /\ n \in InStatus(check[m].s.orders, "draft")

\* Mutant: the vendor's details are not copied.
DecidedNoSnapshot(o, st, kind) ==
  [o EXCEPT !.status = st, !.kind = kind, !.version = @ + 1]

Decided(o, st, kind) ==
  [o EXCEPT !.status = st, !.kind = kind, !.version = @ + 1,
            !.snapshot = <<vendor[o.vendor].contact>>]

Approve(n) ==
  /\ n \in InStatus(orders, "draft")
  /\ ~LockedByCheck(n)
  /\ Submit("order", n)
  /\ ~Exceeds(PolicyIn(Snapshot), Subtotal(orders[n].lines))
  /\ orders' = [orders EXCEPT ![n] = Decided(@, "approved", "manual")]
  /\ UNCHANGED <<ledger, catalogue, revision, agent>>

Reject(n) ==
  /\ n \in InStatus(orders, "draft")
  /\ ~LockedByCheck(n)
  /\ Submit("order", n)
  /\ orders' = [orders EXCEPT ![n] = Decided(@, "rejected", None)]
  /\ UNCHANGED <<ledger, catalogue, revision, agent>>

-----------------------------------------------------------------------------
CatalogueStep ==
  \/ \E v \in Vendor, c \in Contact : CreateVendor(v, c) \/ UpdateVendor(v, c) \/ ContactFound(v, c)
  \/ \E v \in Vendor, discarded \in BOOLEAN : JudgeVendor(v, discarded)
  \/ \E i \in Item, v \in Vendor, t \in Terms : Assign(i, v, t)
  \/ \E i \in Item, v \in Vendor : Unassign(i, v)
  \/ \E p \in Policies : UpdatePolicy(p)

PurchasingNext ==
  \/ \E m \in Monitor : CheckBegin(m) \/ CheckLock(m) \/ CheckCommit(m) \/ CheckFails(m)
  \/ \E on \in BOOLEAN : Switch(on)
  \/ OpenForm \/ CloseForm
  \/ CatalogueStep
  \/ \E x \in Call : StockMoves(x) \/ StockCall(x)
  \/ \E n \in Number : Approve(n) \/ Reject(n)

PurchasingSpec == PurchasingInit /\ [][PurchasingNext]_vars

-----------------------------------------------------------------------------
(* Properties *)

\* A vendor has at most one draft and an item is on at most one draft, so no
\* shortage is proposed twice (the role's lock; README "a draft per vendor").
OneDraft ==
  \A m, n \in InStatus(orders, "draft") :
    m # n => /\ orders[m].vendor # orders[n].vendor
             /\ DOMAIN orders[m].lines \cap DOMAIN orders[n].lines = {}

\* Whatever is approved while checks run, the lines of a draft have counted
\* every approved order of their item ("Approved quantities count as on order"):
\* approving a draft cannot order the same shortage twice.
OnOrderIsCounted ==
  \A n \in InStatus(orders, "draft") : \A i \in DOMAIN orders[n].lines :
    orders[n].lines[i].onOrder = OnOrder(orders, i)

\* When the checkpoint has caught up with the data, every vendor with an
\* uncovered shortage has a draft with exactly the lines and the approval reason
\* today's stock, rules, limits and contacts call for, or its last rejected order
\* had those lines; and no other vendor has a draft.
DraftsMatchStock ==
  checked = revision =>
    \A v \in Vendor :
      LET lines == LinesFor(Snapshot, v, BelowPar(Snapshot))
          mine == DraftsOf(orders, v)
          r == LastRejected(orders, v)
      IN IF DOMAIN lines = {} THEN mine = {}
         ELSE \/ \E n \in mine :
                   /\ orders[n].lines = lines
                   /\ orders[n].reason =
                        ApprovalReason(PolicyIn(Snapshot), Subtotal(lines), vendor[v].contact)
              \/ mine = {} /\ r # None /\ orders[r].lines = lines

\* A rejected proposal is not drafted again as it was: a draft nobody revised
\* differs from the vendor's last rejected order.
RejectedStaysHeld ==
  \A n \in InStatus(orders, "draft") :
    LET r == LastRejected(orders, orders[n].vendor)
    IN orders[n].version = 1 /\ r # None => orders[n].lines # orders[r].lines

\* What a reader of the order's PDF sees (order_json, export_pdf).
Pdf(n) ==
  LET o == orders[n] IN
  [status |-> o.status, version |-> o.version, reason |-> o.reason, lines |-> o.lines,
   contact |-> IF o.snapshot # <<>> THEN o.snapshot[1] ELSE vendor[o.vendor].contact]

\* "Editing a supplier must not change an approved order or PDF", nor may a
\* later check or decision; the same holds of a rejected order.
DecidedIsFinal ==
  [][\A n \in InStatus(orders, "approved") \cup InStatus(orders, "rejected") :
       Pdf(n)' = Pdf(n)]_vars

\* Once a pause has returned, no check commits until the agent is resumed
\* (the comment on check_one).
PausedMeansNoCheck == [][~enabled => checked' = checked]_vars

\* A vendor's row with details added to its contact, if any.
Supplemented(row, now) ==
  /\ row.contact \subseteq now.contact
  /\ now = [row EXCEPT !.contact = now.contact]

\* A save from an open dialog replaces the row the dialog showed: orders by
\* their lines, rules while the row was not removed and created again, vendors
\* but for the details that research added to their contact.
EditsAreCurrent ==
  [][form # None /\ form' = None =>
       /\ form.kind = "order" => \A n \in {form.key} : orders'[n] # orders[n] =>
            orders[n].lines = form.row.lines
       /\ form.kind = "vendor" => \A v \in {form.key} : vendor'[v] # vendor[v] =>
            Supplemented(form.row, vendor[v])
       /\ form.kind = "policy" => (policy' # policy => policy = form.row)
       /\ form.kind = "rule" => \A k \in {form.key} :
            LET now == rule[k[1]][k[2]] IN
            rule'[k[1]][k[2]] # now => now = form.row \/ now.born # form.row.born]_vars
=============================================================================
