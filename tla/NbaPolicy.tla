----------------------------- MODULE NbaPolicy -----------------------------
(***************************************************************************)
(* The deterministic part of a customer's assessment: the windows over the *)
(* transactions, the rules R1..R12 over every package of the catalog, the  *)
(* drift against the latest recommendation, the staleness of that          *)
(* recommendation, and the check of the text a language model wrote.       *)
(*                                                                         *)
(* Time: a transaction carries the half month it was made in (ts); a day d *)
(* is in half month d \div 15 and in month d \div 30.  Money is a natural  *)
(* number, a percentage is in tenths, a ratio in ten-thousandths and a     *)
(* multiplier in thousandths: the digits the code keeps.                   *)
(***************************************************************************)
EXTENDS Integers, FiniteSets, FiniteSetsExt, Sequences

CONSTANTS NULL,      \* SQL NULL
          Catalog    \* product_catalog WHERE active ORDER BY product, package

Products == {"the", "vay", "dautu", "baohiem", "taikhoan"}

ASSUME NullIsNoSet == \A S \in SUBSET Products : S # NULL
ASSUME CatalogAssumption ==
    /\ Len(Catalog) \in Nat /\ DOMAIN Catalog = 1..Len(Catalog)
    /\ \A i \in DOMAIN Catalog : Catalog[i].product \in Products

RULE_PARAMS == [cicBlockFrom |-> 2, dtiMax |-> 6000, contactCooldownDays |-> 14]
SUPPRESSION_DAYS == 90
R1_PRODUCTS == {"vay", "the"}
R2_PRODUCTS == {"dautu"}
R3_PRODUCTS == {"vay", "the"}

HalfMonth(day) == day \div 15
Month(day)     == day \div 30
Months(n)      == 2 * n                          \* n months, in half months

\* toFixed: a quotient rounded half away from zero (b > 0).
Rounded(a, b) == IF a >= 0 THEN (2 * a + b) \div (2 * b)
                           ELSE -((b - 2 * a) \div (2 * b))
Abs(n) == IF n >= 0 THEN n ELSE -n

\* The sum of f[1..n].
Total(n, f) ==
    LET upTo[k \in 0..n] == IF k = 0 THEN 0 ELSE upTo[k - 1] + f[k] IN upTo[n]
Values(s) == {s[i] : i \in DOMAIN s}

(***************************************************************************)
(* WindowsService.  A customer d of the bank's own tables is a record of   *)
(* casa (the balances of the CASA accounts), loans, income, cic, age, held *)
(* (the products), tags and txns.                                          *)
(***************************************************************************)
CurrentPosition(d) ==
    LET debt    == Total(Len(d.loans), [i \in DOMAIN d.loans |-> d.loans[i].outstanding])
        payment == Total(Len(d.loans), [i \in DOMAIN d.loans |-> d.loans[i].payment]) IN
    [casa_avg      |-> IF d.casa = <<>> THEN NULL
                       ELSE Total(Len(d.casa), d.casa) \div Len(d.casa),
     casa_accounts |-> Len(d.casa),
     total_debt    |-> debt,
     monthly_payment |-> payment,
     dti           |-> IF d.income # NULL /\ d.income > 0
                       THEN Rounded(10000 * payment, d.income) ELSE NULL,
     has_overdue   |-> \E l \in Values(d.loans) : l.overdue,
     cic_group     |-> d.cic,
     age           |-> d.age]

\* The transactions of [asOf - (offset + months), asOf - offset).
InWindowInclusive(t, asOf, months, offset) ==
    /\ t.ts >= asOf - Months(offset + months)
    /\ t.ts <= asOf - Months(offset)
InWindow(t, asOf, months, offset) ==
    /\ t.ts >= asOf - Months(offset + months)
    /\ t.ts <  asOf - Months(offset)

Flows(d, asOf, months, offset) ==
    LET hit == {i \in DOMAIN d.txns : InWindow(d.txns[i], asOf, months, offset)}
        total(dir) == Total(Len(d.txns), [i \in DOMAIN d.txns |->
                          IF i \in hit /\ d.txns[i].dir = dir THEN d.txns[i].amount ELSE 0])
    IN [total_in  |-> total("in"),
        total_out |-> total("out"),
        txn_count |-> Cardinality(hit),
        max_txn_amount |-> IF hit = {} THEN NULL
                           ELSE Max({d.txns[i].amount : i \in hit}),
        active_months  |-> Cardinality({d.txns[i].ts \div 2 : i \in hit})]

Window(d, asOf, months) ==
    LET since(x) == x.opened >= asOf - Months(months)
        flow == Flows(d, asOf, months, 0)
    IN [months          |-> months,
        flow            |-> flow,
        net_flow        |-> flow.total_in - flow.total_out,
        txn_per_month   |-> Rounded(100 * flow.txn_count, months),
        spend_tags      |-> {t.tag : t \in {u \in d.tags : u.seen >= asOf - Months(months)}},
        loans_opened    |-> Cardinality({i \in DOMAIN d.loans : since(d.loans[i])}),
        products_opened |-> Cardinality({h \in d.held : since(h)})]

\* How far `now` is from `before`, in tenths of a percent; NULL with nothing to compare to.
Pct(now, before) ==
    IF before = 0 THEN IF now = 0 THEN 0 ELSE NULL
    ELSE Rounded(1000 * (now - before), Abs(before))

Trend(d, asOf) ==
    LET recent   == Flows(d, asOf, 3, 0)
        previous == Flows(d, asOf, 3, 3)
        netPct   == Pct(recent.total_in - recent.total_out,
                        previous.total_in - previous.total_out)
    IN [net_flow_pct  |-> netPct,
        txn_count_pct |-> Pct(recent.txn_count, previous.txn_count),
        total_in_pct  |-> Pct(recent.total_in, previous.total_in),
        direction     |-> IF netPct # NULL /\ netPct > 100 THEN "up"
                          ELSE IF netPct # NULL /\ netPct < -100 THEN "down" ELSE "flat"]

StillSuppressed(s, day) == s.until >= day

\* fb: the customer's feedback, oldest first; supp: its suppressions; n: its notes.
Relationship(d, fb, supp, n, day) ==
    LET last == fb[Len(fb)] IN
    [held_products |-> {h \in d.held : h.active},
     suppressed    |-> {s.product : s \in {x \in supp : StillSuppressed(x, day)}},
     last_contact_days |-> IF fb = <<>> THEN NULL ELSE day - last.day,
     last_feedback |-> IF fb = <<>> THEN NULL
                       ELSE [status |-> last.status, product |-> last.product],
     note_count    |-> n]

(***************************************************************************)
(* PolicyService: the criteria of a package are a function from the codes  *)
(* of the rules that apply to it to whether it passes them.                *)
(***************************************************************************)
NonBlockingWithR5 == {"R5", "R11", "R12"}
NonBlocking == {"R11", "R12"}

Holds(rel, product, tier) ==
    \E h \in rel.held_products : h.product = product /\ h.tier = tier

\* R11: the customer already pays an insurance elsewhere.
PaysElsewhere(row, d) ==
    row.product = "baohiem" /\ \E t \in d.tags : t.tag = "tag_dong_phi_bh"

\* kpi: the month's multipliers, in hundredths, NULL for a product without one.
HasKpi(row, kpi) == kpi[row.product] # NULL /\ kpi[row.product] # 100

Applies(code, row, d, kpi) ==
    CASE code = "R10" -> row.age_min # NULL \/ row.age_max # NULL
      [] code = "R9"  -> row.min_balance # NULL
      [] code = "R1"  -> row.product \in R1_PRODUCTS
      [] code = "R2"  -> row.product \in R2_PRODUCTS
      [] code = "R3"  -> row.product \in R3_PRODUCTS
      [] code = "R11" -> PaysElsewhere(row, d)
      [] code = "R12" -> HasKpi(row, kpi)
      [] OTHER        -> code \in {"R4", "R5"}

Passed(code, row, cur, rel, kpi) ==
    CASE code = "R10" -> /\ cur.age # NULL
                         /\ cur.age >= (IF row.age_min = NULL THEN 0 ELSE row.age_min)
                         /\ cur.age <= (IF row.age_max = NULL THEN 200 ELSE row.age_max)
      [] code = "R9"  -> cur.casa_avg # NULL /\ cur.casa_avg >= row.min_balance
      [] code = "R1"  -> cur.cic_group # NULL /\ cur.cic_group < RULE_PARAMS.cicBlockFrom
      [] code = "R2"  -> ~cur.has_overdue
      [] code = "R3"  -> cur.dti # NULL /\ cur.dti <= RULE_PARAMS.dtiMax
      [] code = "R4"  -> ~Holds(rel, row.product, row.tier)
      [] code = "R5"  -> row.product \notin rel.suppressed
      [] code = "R11" -> FALSE
      [] code = "R12" -> kpi[row.product] > 100

RuleCodes == {"R1", "R2", "R3", "R4", "R5", "R9", "R10", "R11", "R12"}

EvaluatePackage(row, d, cur, rel, kpi) ==
    LET applied  == {code \in RuleCodes : Applies(code, row, d, kpi)}
        criteria == [code \in applied |-> Passed(code, row, cur, rel, kpi)]
        blocked  == {code \in applied \ NonBlocking : ~criteria[code]}
        tenths   == IF PaysElsewhere(row, d) THEN 5 ELSE 10        \* 0.5 or 1
        percent  == IF HasKpi(row, kpi) THEN kpi[row.product] ELSE 100
    IN [product    |-> row.product,
        package    |-> row.package,
        eligible   |-> blocked = {},
        criteria   |-> criteria,
        multiplier |-> tenths * percent,
        blocked_by |-> blocked]

PassCount(p) == Cardinality({code \in DOMAIN p.criteria : p.criteria[code]})

\* The comparator of evaluate; the sort is stable, so the catalog's order decides a tie.
Precedes(ps, i, j) ==
    \/ ps[i].eligible /\ ~ps[j].eligible
    \/ /\ ps[i].eligible = ps[j].eligible
       /\ \/ PassCount(ps[i]) > PassCount(ps[j])
          \/ PassCount(ps[i]) = PassCount(ps[j]) /\ i < j

Ranked(ps) ==
    [k \in DOMAIN ps |->
        ps[CHOOSE i \in DOMAIN ps :
              Cardinality({j \in DOMAIN ps : Precedes(ps, j, i)}) = k - 1]]

Evaluate(d, cur, rel, kpi) ==
    Ranked([i \in DOMAIN Catalog |-> EvaluatePackage(Catalog[i], d, cur, rel, kpi)])

\* R6 stands beside the packages: it holds the customer back, not a package.
CustomerBlocked(rel) ==
    rel.last_contact_days # NULL /\ rel.last_contact_days < RULE_PARAMS.contactCooldownDays

(***************************************************************************)
(* AssessmentService and NbaService: what is built on the evaluation.  A   *)
(* recommendation r keeps the rules that had fired and the features it was *)
(* made from.                                                              *)
(***************************************************************************)
DetectDrift(ps, r) ==
    IF r = NULL THEN {}
    ELSE UNION {{[package |-> p.package, code |-> c,
                  was |-> c \notin r.rules_applied, now |-> p.criteria[c]] :
                 c \in {c \in DOMAIN p.criteria \ NonBlocking :
                           (c \in r.rules_applied) # ~p.criteria[c]}} : p \in Values(ps)}

\* A closed account counts as a balance of 0, unlike in CurrentPosition.
CasaMovedIfKnown(before, now) ==
    /\ before # NULL /\ now # NULL
    /\ 5 * Abs(now - before) > (IF before = 0 THEN 1 ELSE before)
CasaMoved(before, now) ==
    /\ before # NULL
    /\ 5 * Abs((IF now = NULL THEN 0 ELSE now) - before) > (IF before = 0 THEN 1 ELSE before)

\* The fields of the snapshot the live data has left by 20% (CASA), 15% (debt) or at all (products).
Staleness(d, r) ==
    LET snap == r.snapshot
        cur  == CurrentPosition(d)
        base(n) == IF n = 0 THEN 1 ELSE n
    IN {f \in {"casa_avg", "total_debt", "product_flags"} :
          CASE f = "casa_avg"   -> CasaMoved(snap.casa_avg, cur.casa_avg)
            [] f = "total_debt" -> /\ snap.total_debt # NULL
                                   /\ 20 * Abs(cur.total_debt - snap.total_debt)
                                         > 3 * base(snap.total_debt)
            [] OTHER            -> /\ snap.product_flags # NULL
                                   /\ snap.product_flags #
                                        {h.product : h \in {x \in d.held : x.active}}}

\* What buildEvidence states: facts, each with the numbers it mentions.
Evidence(cur, w3, w6, trend, rel, ps) ==
    LET Fact(name, nums) == [fact |-> name, nums |-> nums]
        If(cond, name, nums) == IF cond THEN {Fact(name, nums)} ELSE {}
        best == ps[1]
    IN  {Fact("in3", {w3.flow.total_in, w3.flow.txn_count, w3.txn_per_month}),
         Fact("in6", {w6.flow.total_in}),
         Fact(IF rel.held_products = {} THEN "holdsNothing" ELSE "holds", {})}
     \cup If(cur.casa_avg # NULL, "casa", {cur.casa_avg})
     \cup If(trend.direction # "flat" /\ trend.net_flow_pct # NULL,
             trend.direction, {Abs(trend.net_flow_pct)})
     \cup If(w3.flow.active_months > 0, "active", {w3.flow.active_months, 3})
     \cup If(w6.flow.max_txn_amount # NULL, "largest", {w6.flow.max_txn_amount})
     \cup If(w3.spend_tags # {}, "spends", {})
     \cup If(cur.dti # NULL, "dti", {cur.dti})
     \cup If(cur.total_debt > 0, "debt", {cur.total_debt})
     \cup If(cur.cic_group # NULL, "cic", {cur.cic_group})
     \cup If(rel.last_contact_days # NULL, "contact", {rel.last_contact_days})
     \cup IF ps # <<>> /\ best.eligible
          THEN {Fact("best", {PassCount(best), Cardinality(DOMAIN best.criteria)})} ELSE {}

\* The text of the model: a promise is refused, and so is a number of two digits or more
\* that the evidence does not state.
PostCheck(reply, evidence) ==
    /\ ~reply.promise
    /\ \A n \in reply.numbers : n > 9 => \E e \in evidence : n \in e.nums

\* reply = NULL: the call failed, timed out or came back empty.
Explain(mode, ps, evidence, reply) ==
    LET top == {i \in DOMAIN ps : ps[i].eligible}
        none(degraded) == [narrative |-> NULL, degraded |-> degraded]
    IN CASE mode = "llm"   -> IF top = {} \/ reply = NULL THEN none(TRUE)
                              ELSE IF ~PostCheck(reply, evidence) THEN none(TRUE)
                              ELSE [narrative |-> [product |-> ps[Min(top)].product,
                                                   numbers |-> reply.numbers],
                                    degraded  |-> FALSE]
         [] mode = "model" -> none(TRUE)
         [] OTHER          -> none(FALSE)
=============================================================================
