--------------------------- MODULE NetfilterProofs ---------------------------
(***************************************************************************)
(* What iptables commands preserve of a table, for every set of UIDs.      *)
(***************************************************************************)
EXTENDS NetfilterTables, SequenceTheorems, FiniteSetTheorems, WellFoundedInduction, TLAPS

(* Inserting a rule into a chain keeps it a sequence of rules. *)
LEMMA InsertAtType ==
  ASSUME NEW S, NEW s \in Seq(S), NEW e \in S, NEW i \in 1..Len(s) + 1
  PROVE  InsertAt(s, i, e) \in Seq(S)
<1>1. SubSeq(s, 1, i - 1) \in Seq(S)
  BY SubSeqProperties
<1>2. SubSeq(s, i, Len(s)) \in Seq(S)
  BY SubSeqProperties
<1>3. <<e>> \in Seq(S)
  OBVIOUS
<1>4. QED
  BY <1>1, <1>2, <1>3, ConcatProperties DEF InsertAt

(* Every non-empty set of natural numbers has a least element. *)
LEMMA LeastNatural ==
  ASSUME NEW I \in SUBSET Nat, I # {}
  PROVE  \E n \in I : \A m \in I : n <= m
<1> DEFINE R == OpToRel(<, Nat)
<1>1. IsWellFoundedOn(R, Nat)
  BY NatLessThanWellFounded
<1>2. PICK n \in I : \A m \in I : ~(<<m, n>> \in R)
  <2> HIDE DEF R
  <2> QED  BY <1>1, WFMin
<1>3. \A m \in I : ~(m < n)
  BY <1>2 DEF OpToRel
<1>4. QED
  BY <1>3

(* Deleting the first occurrence of a rule keeps a chain a sequence of     *)
(* rules.                                                                  *)
LEMMA RemoveFirstType ==
  ASSUME NEW S, NEW s \in Seq(S), NEW e
  PROVE  RemoveFirst(s, e) \in Seq(S)
<1>1. CASE ~\E i \in 1..Len(s) : s[i] = e
  BY <1>1 DEF RemoveFirst
<1>2. CASE \E i \in 1..Len(s) : s[i] = e
  <2> DEFINE I == {i \in 1..Len(s) : s[i] = e}
  <2>1. I # {} /\ I \in SUBSET Nat
    BY <1>2
  <2>2. \E n \in I : \A m \in I : n <= m
    <3> HIDE DEF I
    <3> QED  BY <2>1, LeastNatural
  <2>3. Min(I) \in I
    BY <2>2 DEF Min
  <2>4. SelectInSeq(s, LAMBDA v : v = e) = Min(I)
    BY <2>1 DEF SelectInSeq
  <2>5. RemoveFirst(s, e) = RemoveAt(s, Min(I))
    BY <1>2, <2>4 DEF RemoveFirst
  <2>6. PICK k \in 1..Len(s) : k = Min(I)
    BY <2>3
  <2>7. SubSeq(s, 1, k - 1) \in Seq(S) /\ SubSeq(s, k + 1, Len(s)) \in Seq(S)
    BY SubSeqProperties
  <2>8. QED
    BY <2>5, <2>6, <2>7, ConcatProperties DEF RemoveAt
<1>3. QED
  BY <1>1, <1>2

(* Fewer UIDs allow fewer rules and fewer commands, and one of a script is *)
(* a command whatever the UIDs.                                            *)
LEMMA RulesMonotone ==
  ASSUME NEW us, NEW vs, us \subseteq vs
  PROVE  \A t : IsTable(t, us) => IsTable(t, vs)
<1>1. \A chain : RulesOf(chain, us) \subseteq RulesOf(chain, vs)
  BY DEF RulesOf, Rules
<1>2. \A chain : Seq(RulesOf(chain, us)) \subseteq Seq(RulesOf(chain, vs))
  BY <1>1
<1>3. QED
  BY <1>2 DEF IsTable

LEMMA CommandsMonotone ==
  ASSUME NEW us, NEW vs, us \subseteq vs
  PROVE  Commands(us) \subseteq Commands(vs)
BY DEF Commands

(* The rules of the scripts belong where the scripts put them, and another *)
(* program's belong in OUTPUT.                                             *)
LEMMA RulesBelong ==
  ASSUME NEW us
  PROVE  /\ \A u \in us : SetXmark(u) \in RulesOf(CHAIN_MARK, us)
         /\ RestoreMark \in RulesOf(CHAIN_LOG, us) /\ Nflog \in RulesOf(CHAIN_LOG, us)
         /\ \A c \in AppTapChains : Jump(c) \in RulesOf("OUTPUT", us)
         /\ Jump(CHAIN_LOG) \in RulesOf("PREROUTING", us)
         /\ DeviceRule \in RulesOf("OUTPUT", us)
BY DEF RulesOf, Rules, TargetsOf, SetXmark, RestoreMark, Nflog, Jump, DeviceRule,
       AppTapChains, CHAIN_MARK, CHAIN_LOG

(* What the commands of the scripts look like. *)
LEMMA CommandShapes ==
  ASSUME NEW us, NEW cmd \in Commands(us)
  PROVE  \/ \E c \in AppTapChains : cmd = NewChain(c)
         \/ \E c \in AppTapChains : \E r \in RulesOf(c, us) : cmd = AppendRule(c, r)
         \/ \E hook \in Hooks, pos \in {1, 2} : \E r \in RulesOf(hook, us) :
              cmd = InsertRule(hook, pos, r)
         \/ \E hook \in Hooks : \E r \in RulesOf(hook, us) : cmd = DeleteRule(hook, r)
         \/ \E c \in AppTapChains : cmd = FlushChain(c)
         \/ \E c \in AppTapChains : cmd = DeleteChain(c)
<1>1. CASE \E u \in us : cmd = AppendRule(CHAIN_MARK, SetXmark(u))
  BY <1>1, RulesBelong DEF AppTapChains
<1>2. CASE \E i \in DOMAIN build_setup : cmd = build_setup[i] /\ cmd # PerUid
  BY <1>2, RulesBelong DEF build_setup, AppTapChains, Hooks
<1>3. CASE \E i \in DOMAIN build_teardown : cmd = build_teardown[i]
  BY <1>3, RulesBelong DEF build_teardown, DeleteJumps, AppTapChains, Hooks
<1>4. QED
  BY <1>1, <1>2, <1>3 DEF Commands

(* A command for some UIDs leaves a table whose rules mark only these. *)
LEMMA ApplyType ==
  ASSUME NEW us, NEW t, IsTable(t, us), NEW cmd \in Commands(us)
  PROVE  IsTable(Apply(t, cmd), us)
<1>1. SUFFICES ASSUME Accepts(t, cmd)
               PROVE  IsTable(Effect(t, cmd), us)
  BY DEF Apply
<1>2. CASE \E c \in AppTapChains : cmd = NewChain(c)
  BY <1>2 DEF NewChain, Effect, IsTable
<1>3. CASE \E c \in AppTapChains : \E r \in RulesOf(c, us) : cmd = AppendRule(c, r)
  <2>1. PICK c \in AppTapChains : \E r \in RulesOf(c, us) : cmd = AppendRule(c, r)
    BY <1>3
  <2>2. PICK r \in RulesOf(c, us) : cmd = AppendRule(c, r)
    BY <2>1
  <2>3. c \in DOMAIN t /\ Effect(t, cmd) = [t EXCEPT ![c] = Append(t[c], r)]
    BY <1>1, <2>2 DEF AppendRule, Accepts, Effect
  <2>4. Append(t[c], r) \in Seq(RulesOf(c, us))
    BY <2>3 DEF IsTable
  <2>5. QED
    BY <2>3, <2>4 DEF IsTable
<1>4. CASE \E hook \in Hooks, pos \in {1, 2} : \E r \in RulesOf(hook, us) :
             cmd = InsertRule(hook, pos, r)
  <2>1. PICK hook \in Hooks, pos \in {1, 2} : \E r \in RulesOf(hook, us) :
          cmd = InsertRule(hook, pos, r)
    BY <1>4
  <2>2. PICK r \in RulesOf(hook, us) : cmd = InsertRule(hook, pos, r)
    BY <2>1
  <2>3. /\ pos <= Len(t[hook]) + 1
        /\ Effect(t, cmd) = [t EXCEPT ![hook] = InsertAt(t[hook], pos, r)]
    BY <1>1, <2>2 DEF InsertRule, Accepts, Effect
  <2>4. hook \in DOMAIN t /\ t[hook] \in Seq(RulesOf(hook, us))
    BY DEF IsTable
  <2>5. pos \in 1..Len(t[hook]) + 1
    BY <2>3, <2>4
  <2>6. InsertAt(t[hook], pos, r) \in Seq(RulesOf(hook, us))
    BY <2>4, <2>5, InsertAtType
  <2>7. QED
    BY <2>3, <2>4, <2>6 DEF IsTable
<1>5. CASE \E hook \in Hooks : \E r \in RulesOf(hook, us) : cmd = DeleteRule(hook, r)
  <2>1. PICK hook \in Hooks : \E r \in RulesOf(hook, us) : cmd = DeleteRule(hook, r)
    BY <1>5
  <2>2. PICK r \in RulesOf(hook, us) : cmd = DeleteRule(hook, r)
    BY <2>1
  <2>3. Effect(t, cmd) = [t EXCEPT ![hook] = RemoveFirst(t[hook], r)]
    BY <2>2 DEF DeleteRule, Effect
  <2>4. hook \in DOMAIN t /\ t[hook] \in Seq(RulesOf(hook, us))
    BY DEF IsTable
  <2>5. RemoveFirst(t[hook], r) \in Seq(RulesOf(hook, us))
    BY <2>4, RemoveFirstType
  <2>6. QED
    BY <2>3, <2>4, <2>5 DEF IsTable
<1>6. CASE \E c \in AppTapChains : cmd = FlushChain(c)
  <2>1. PICK c \in AppTapChains : cmd = FlushChain(c)
    BY <1>6
  <2>2. c \in DOMAIN t /\ Effect(t, cmd) = [t EXCEPT ![c] = <<>>]
    BY <1>1, <2>1 DEF FlushChain, Accepts, Effect
  <2>3. <<>> \in Seq(RulesOf(c, us))
    OBVIOUS
  <2>4. QED
    BY <2>2, <2>3 DEF IsTable
<1>7. CASE \E c \in AppTapChains : cmd = DeleteChain(c)
  <2>1. PICK c \in AppTapChains : cmd = DeleteChain(c)
    BY <1>7
  <2>2. Effect(t, cmd) = [d \in DOMAIN t \ {c} |-> t[d]]
    BY <2>1 DEF DeleteChain, Effect, Restrict
  <2>3. c \notin Hooks
    BY DEF AppTapChains, Hooks, CHAIN_MARK, CHAIN_LOG
  <2>4. QED
    BY <2>2, <2>3 DEF IsTable
<1>8. QED
  BY <1>2, <1>3, <1>4, <1>5, <1>6, <1>7, CommandShapes

(* A packet only meets rules of the table, and only gets its connection    *)
(* marked for a UID the table's rules are for.                             *)
LEMMA VisitedRules ==
  ASSUME NEW us, NEW t, IsTable(t, us), NEW hook \in Hooks, NEW p \in Visited(t, hook)
  PROVE  RuleAt(t, hook, p) \in Rules(us)
<1>1. PICK i \in DOMAIN t[hook] :
        /\ t[hook][i].target \in DOMAIN t
        /\ p \in {i} \X DOMAIN t[t[hook][i].target]
  BY DEF Visited
<1>2. p[1] = i /\ p[2] \in DOMAIN t[t[hook][i].target]
  BY <1>1
<1>3. t[t[hook][i].target] \in Seq(RulesOf(t[hook][i].target, us))
  BY <1>1 DEF IsTable
<1>4. QED
  BY <1>2, <1>3 DEF RuleAt, RulesOf

LEMMA StampsOnlyFor ==
  ASSUME NEW us, NEW t, IsTable(t, us), NEW hook \in Hooks, NEW uid,
         Stamps(t, hook, uid) # {}
  PROVE  uid \in us
<1>1. PICK p \in Visited(t, hook) : RuleAt(t, hook, p) = SetXmark(uid)
  BY DEF Stamps
<1>2. SetXmark(uid) \in Rules(us)
  BY <1>1, VisitedRules
<1>3. QED
  BY <1>2 DEF Rules, SetXmark, RestoreMark, Nflog, DeviceRule, Jump,
              AppTapChains, CHAIN_MARK, CHAIN_LOG

------------------------------------------------------------------------------
(* How often a rule occurs in a chain, and what inserting and deleting     *)
(* rules makes of that.                                                    *)
LEMMA PlacesFinite ==
  ASSUME NEW S, NEW s \in Seq(S), NEW x
  PROVE  IsFiniteSet(Places(s, x)) /\ Cardinality(Places(s, x)) \in Nat
<1>1. IsFiniteSet(1..Len(s))
  BY FS_Interval
<1>2. Places(s, x) \in SUBSET (1..Len(s))
  BY DEF Places
<1>3. IsFiniteSet(Places(s, x))
  BY <1>1, <1>2, FS_Subset
<1>4. QED
  BY <1>3, FS_CardinalityType

(* Where the rules of a chain are after an insertion. *)
LEMMA InsertAtElements ==
  ASSUME NEW S, NEW s \in Seq(S), NEW e \in S, NEW i \in 1..Len(s) + 1
  PROVE  /\ InsertAt(s, i, e) \in Seq(S)
         /\ Len(InsertAt(s, i, e)) = Len(s) + 1
         /\ \A k \in 1..Len(s) + 1 :
              InsertAt(s, i, e)[k] = IF k < i THEN s[k] ELSE IF k = i THEN e ELSE s[k - 1]
<1> DEFINE front == SubSeq(s, 1, i - 1)
           back == SubSeq(s, i, Len(s))
<1>1. /\ front \in Seq(S) /\ Len(front) = i - 1
      /\ \A k \in 1..i - 1 : front[k] = s[k]
  BY SubSeqProperties
<1>2. /\ back \in Seq(S) /\ Len(back) = Len(s) - i + 1
      /\ \A k \in 1..Len(s) - i + 1 : back[k] = s[i + k - 1]
  BY SubSeqProperties
<1>3. <<e>> \in Seq(S) /\ Len(<<e>>) = 1 /\ <<e>>[1] = e
  OBVIOUS
<1>4. InsertAt(s, i, e) = (front \o <<e>>) \o back
  BY DEF InsertAt
<1> HIDE DEF front, back
<1>5. /\ front \o <<e>> \in Seq(S) /\ Len(front \o <<e>>) = i
      /\ \A k \in 1..i : (front \o <<e>>)[k] = IF k < i THEN s[k] ELSE e
  BY <1>1, <1>3, ConcatProperties
<1>6. /\ InsertAt(s, i, e) \in Seq(S)
      /\ Len(InsertAt(s, i, e)) = Len(s) + 1
      /\ \A k \in 1..Len(s) + 1 :
           InsertAt(s, i, e)[k] = IF k <= i THEN (front \o <<e>>)[k] ELSE back[k - i]
  BY <1>2, <1>4, <1>5, ConcatProperties
<1>7. ASSUME NEW k \in 1..Len(s) + 1
      PROVE  InsertAt(s, i, e)[k] = IF k < i THEN s[k] ELSE IF k = i THEN e ELSE s[k - 1]
  <2>1. CASE k <= i
    BY <1>5, <1>6, <2>1
  <2>2. CASE k > i
    <3>1. k - i \in 1..Len(s) - i + 1 /\ i + (k - i) - 1 = k - 1
      BY <2>2
    <3>2. QED
      BY <1>2, <1>6, <2>2, <3>1
  <2>3. QED
    BY <2>1, <2>2
<1>8. QED
  BY <1>6, <1>7

(* ... and into an empty chain. *)
LEMMA InsertIntoEmpty ==
  ASSUME NEW e
  PROVE  InsertAt(<<>>, 1, e) = <<e>>
<1>1. SubSeq(<<>>, 1, 1 - 1) = <<>>
  BY SubSeqEmpty
<1>2. SubSeq(<<>>, 1, Len(<<>>)) = <<>>
  BY SubSeqEmpty
<1>3. InsertAt(<<>>, 1, e) = (<<>> \o <<e>>) \o <<>>
  BY <1>1, <1>2 DEF InsertAt
<1>4. QED
  BY <1>3, ConcatEmptySeq

(* ... and after the deletion of the first occurrence of one of them, which *)
(* leaves t.                                                                *)
FirstRemoved(s, e, m, t) ==
  /\ s[m] = e
  /\ \A k \in 1..m - 1 : s[k] # e
  /\ Len(t) = Len(s) - 1
  /\ \A k \in 1..Len(s) - 1 : t[k] = IF k < m THEN s[k] ELSE s[k + 1]

LEMMA RemoveFirstElements ==
  ASSUME NEW S, NEW s \in Seq(S), NEW e, e \in ToSet(s)
  PROVE  \E m \in 1..Len(s) : FirstRemoved(s, e, m, RemoveFirst(s, e))
<1> DEFINE I == {i \in 1..Len(s) : s[i] = e}
<1>1. I # {} /\ I \in SUBSET Nat
  BY DEF ToSet
<1>2. \E n \in I : \A m \in I : n <= m
  <2> HIDE DEF I
  <2> QED  BY <1>1, LeastNatural
<1>3. Min(I) \in I /\ \A i \in I : Min(I) <= i
  BY <1>2 DEF Min
<1>4. SelectInSeq(s, LAMBDA v : v = e) = Min(I)
  BY <1>1 DEF SelectInSeq
<1>5. RemoveFirst(s, e) = RemoveAt(s, Min(I))
  BY <1>1, <1>4 DEF RemoveFirst
<1>6. PICK m \in 1..Len(s) : m = Min(I)
  BY <1>3
<1>7. s[m] = e /\ \A k \in 1..m - 1 : s[k] # e
  <2>1. \A i \in I : m <= i
    BY <1>3, <1>6
  <2>2. \A k \in 1..m - 1 : k \in 1..Len(s) /\ k \notin I
    BY <2>1
  <2>3. QED
    BY <1>3, <1>6, <2>2
<1> DEFINE front == SubSeq(s, 1, m - 1)
           back == SubSeq(s, m + 1, Len(s))
<1>8. /\ front \in Seq(S) /\ Len(front) = m - 1
      /\ \A k \in 1..m - 1 : front[k] = s[k]
  BY SubSeqProperties
<1>9. /\ back \in Seq(S) /\ Len(back) = Len(s) - m
      /\ \A k \in 1..Len(s) - m : back[k] = s[m + k]
  BY SubSeqProperties
<1>10. RemoveFirst(s, e) = front \o back
  BY <1>5, <1>6 DEF RemoveAt
<1> HIDE DEF front, back
<1>11. /\ RemoveFirst(s, e) \in Seq(S)
       /\ Len(RemoveFirst(s, e)) = Len(s) - 1
       /\ \A k \in 1..Len(s) - 1 :
            RemoveFirst(s, e)[k] = IF k <= m - 1 THEN front[k] ELSE back[k - (m - 1)]
  BY <1>8, <1>9, <1>10, ConcatProperties
<1>12. ASSUME NEW k \in 1..Len(s) - 1
       PROVE  RemoveFirst(s, e)[k] = IF k < m THEN s[k] ELSE s[k + 1]
  <2>1. CASE k < m
    BY <1>8, <1>11, <2>1
  <2>2. CASE k >= m
    <3>1. k - (m - 1) \in 1..Len(s) - m /\ m + (k - (m - 1)) = k + 1
      BY <2>2
    <3>2. QED
      BY <1>9, <1>11, <2>2, <3>1
  <2>3. QED
    BY <2>1, <2>2
<1>13. QED
  BY <1>7, <1>11, <1>12 DEF FirstRemoved

(* An insertion adds one occurrence of the rule and none of any other. *)
LEMMA InsertAtPlaces ==
  ASSUME NEW S, NEW s \in Seq(S), NEW e \in S, NEW i \in 1..Len(s) + 1, NEW x
  PROVE  Cardinality(Places(InsertAt(s, i, e), x))
           <= Cardinality(Places(s, x)) + (IF e = x THEN 1 ELSE 0)
<1> DEFINE t == InsertAt(s, i, e)
           P == Places(t, x) \ {i}
           g == [k \in P |-> IF k < i THEN k ELSE k - 1]
<1>1. /\ t \in Seq(S) /\ Len(t) = Len(s) + 1
      /\ \A k \in 1..Len(s) + 1 : t[k] = IF k < i THEN s[k] ELSE IF k = i THEN e ELSE s[k - 1]
  BY InsertAtElements
<1> HIDE DEF t
<1>2. \A k \in P : k \in 1..Len(s) + 1 /\ k # i /\ t[k] = x
  BY <1>1 DEF Places
<1>3. g \in Injection(P, Places(s, x))
  <2>1. ASSUME NEW k \in P PROVE g[k] \in Places(s, x)
    BY <1>1, <1>2 DEF Places
  <2>2. ASSUME NEW k \in P, NEW n \in P, g[k] = g[n] PROVE k = n
    BY <1>2, <2>2
  <2>3. QED
    BY <2>1, <2>2 DEF Injection, IsInjective
<1>4. Cardinality(P) <= Cardinality(Places(s, x))
  BY <1>3, PlacesFinite, FS_Injection
<1>5. /\ IsFiniteSet(Places(t, x)) /\ Cardinality(Places(t, x)) \in Nat
      /\ Cardinality(Places(s, x)) \in Nat
  BY <1>1, PlacesFinite
<1>6. Cardinality(P) = IF i \in Places(t, x) THEN Cardinality(Places(t, x)) - 1
                       ELSE Cardinality(Places(t, x))
  BY <1>5, FS_RemoveElement
<1>7. i \in Places(t, x) => e = x
  BY <1>1 DEF Places
<1>8. QED
  BY <1>4, <1>5, <1>6, <1>7 DEF t

(* A deletion of a rule that is there takes one occurrence of it away. *)
LEMMA RemoveFirstPlaces ==
  ASSUME NEW S, NEW s \in Seq(S), NEW e, e \in ToSet(s), NEW x
  PROVE  Cardinality(Places(RemoveFirst(s, e), x))
           <= Cardinality(Places(s, x)) - (IF e = x THEN 1 ELSE 0)
<1> DEFINE t == RemoveFirst(s, e)
<1>1. PICK m \in 1..Len(s) : FirstRemoved(s, e, m, t)
  BY RemoveFirstElements
<1>2. t \in Seq(S)
  BY RemoveFirstType
<1> HIDE DEF t
<1> DEFINE P == Places(s, x) \ {m}
           g == [k \in Places(t, x) |-> IF k < m THEN k ELSE k + 1]
<1> USE DEF FirstRemoved
<1>3. \A k \in Places(t, x) : k \in 1..Len(s) - 1 /\ t[k] = x
  BY <1>1 DEF Places
<1>4. g \in Injection(Places(t, x), P)
  <2>1. ASSUME NEW k \in Places(t, x) PROVE g[k] \in P
    <3>1. k \in 1..Len(s) - 1 /\ t[k] = x
      BY <1>3
    <3>2. CASE k < m
      BY <1>1, <3>1, <3>2 DEF Places
    <3>3. CASE k >= m
      <4>1. k + 1 \in 1..Len(s) /\ s[k + 1] = x
        BY <1>1, <3>1, <3>3
      <4>2. QED
        BY <3>1, <3>3, <4>1 DEF Places
    <3>4. QED
      BY <3>1, <3>2, <3>3
  <2>2. ASSUME NEW k \in Places(t, x), NEW n \in Places(t, x), g[k] = g[n] PROVE k = n
    BY <1>3, <2>2
  <2>3. QED
    BY <2>1, <2>2 DEF Injection, IsInjective
<1>5. /\ IsFiniteSet(Places(s, x)) /\ Cardinality(Places(s, x)) \in Nat
      /\ Cardinality(Places(t, x)) \in Nat
  BY <1>2, PlacesFinite
<1>6. /\ IsFiniteSet(P)
      /\ Cardinality(P) = IF m \in Places(s, x) THEN Cardinality(Places(s, x)) - 1
                          ELSE Cardinality(Places(s, x))
  BY <1>5, FS_RemoveElement
<1>7. Cardinality(Places(t, x)) <= Cardinality(P)
  BY <1>4, <1>6, FS_Injection
<1>8. e = x => m \in Places(s, x)
  BY <1>1 DEF Places
<1>9. QED
  BY <1>5, <1>6, <1>7, <1>8 DEF t

(* What a command makes of the number of occurrences of a rule in a hook:  *)
(* only its insertion adds one, and its deletion takes one away if there   *)
(* is one.                                                                 *)
LEMMA ApplyPlaces ==
  ASSUME NEW us, NEW t, IsTable(t, us), NEW cmd \in Commands(us), NEW hook \in Hooks, NEW x
  PROVE  /\ Cardinality(Places(t[hook], x)) \in Nat
         /\ Cardinality(Places(Apply(t, cmd)[hook], x)) \in Nat
         /\ Cardinality(Places(Apply(t, cmd)[hook], x)) <= Cardinality(Places(t[hook], x)) + 1
         /\ (\A pos \in {1, 2} : cmd # InsertRule(hook, pos, x)) =>
              Cardinality(Places(Apply(t, cmd)[hook], x)) <= Cardinality(Places(t[hook], x))
         /\ cmd = DeleteRule(hook, x) =>
              \/ Cardinality(Places(Apply(t, cmd)[hook], x)) = 0
              \/ Cardinality(Places(Apply(t, cmd)[hook], x)) <= Cardinality(Places(t[hook], x)) - 1
<1> DEFINE before == t[hook]
           after == Apply(t, cmd)[hook]
           R == RulesOf(hook, us)
<1>1. before \in Seq(R) /\ hook \in DOMAIN t
  BY DEF IsTable
<1>2. after \in Seq(R)
  BY ApplyType DEF IsTable
<1>3. Cardinality(Places(before, x)) \in Nat /\ Cardinality(Places(after, x)) \in Nat
  BY <1>1, <1>2, PlacesFinite
<1>4. CASE \E pos \in {1, 2} : \E r \in R : cmd = InsertRule(hook, pos, r)
  <2>1. PICK pos \in {1, 2} : \E r \in R : cmd = InsertRule(hook, pos, r)
    BY <1>4
  <2>2. PICK r \in R : cmd = InsertRule(hook, pos, r)
    BY <2>1
  <2>3. cmd # DeleteRule(hook, x)
    BY <2>2 DEF InsertRule, DeleteRule
  <2>4. (\A p \in {1, 2} : cmd # InsertRule(hook, p, x)) => r # x
    BY <2>2
  <2>5. CASE Accepts(t, cmd)
    <3>1. pos <= Len(before) + 1 /\ after = InsertAt(before, pos, r)
      BY <1>1, <2>2, <2>5 DEF InsertRule, Accepts, Effect, Apply, IsTable
    <3>2. pos \in 1..Len(before) + 1
      BY <1>1, <3>1
    <3>3. Cardinality(Places(after, x)) <= Cardinality(Places(before, x)) + (IF r = x THEN 1 ELSE 0)
      BY <1>1, <3>1, <3>2, InsertAtPlaces
    <3>4. QED
      BY <1>3, <2>3, <2>4, <3>3
  <2>6. CASE ~Accepts(t, cmd)
    BY <1>3, <2>3, <2>6 DEF Apply
  <2>7. QED
    BY <2>5, <2>6
<1>5. CASE \E r \in R : cmd = DeleteRule(hook, r)
  <2>1. PICK r \in R : cmd = DeleteRule(hook, r)
    BY <1>5
  <2>2. cmd = DeleteRule(hook, x) => r = x
    BY <2>1 DEF DeleteRule
  <2>3. CASE Accepts(t, cmd)
    <3>1. r \in ToSet(before) /\ after = RemoveFirst(before, r)
      BY <1>1, <2>1, <2>3 DEF DeleteRule, Accepts, Effect, Apply, IsTable
    <3>2. Cardinality(Places(after, x)) <= Cardinality(Places(before, x)) - (IF r = x THEN 1 ELSE 0)
      BY <1>1, <3>1, RemoveFirstPlaces
    <3>3. QED
      BY <1>3, <2>2, <3>2
  <2>4. CASE ~Accepts(t, cmd)
    <3>1. after = before
      BY <2>4 DEF Apply
    <3>2. r \notin ToSet(before)
      BY <2>1, <2>4 DEF DeleteRule, Accepts
    <3>3. r = x => Places(before, x) = {}
      BY <3>2 DEF Places, ToSet
    <3>4. r = x => Cardinality(Places(after, x)) = 0
      BY <3>1, <3>3, FS_EmptySet
    <3>5. QED
      BY <1>3, <2>2, <3>1, <3>4
  <2>5. QED
    BY <2>3, <2>4
<1>6. CASE /\ ~\E pos \in {1, 2} : \E r \in R : cmd = InsertRule(hook, pos, r)
           /\ ~\E r \in R : cmd = DeleteRule(hook, r)
  <2>1. cmd # DeleteRule(hook, x)
    BY <1>6, CommandShapes DEF NewChain, AppendRule, InsertRule, DeleteRule, FlushChain, DeleteChain
  <2>2. after = before
    <3>1. \/ \E c \in AppTapChains : cmd = NewChain(c)
          \/ \E c \in AppTapChains : \E r \in RulesOf(c, us) : cmd = AppendRule(c, r)
          \/ \E h \in Hooks \ {hook}, pos \in {1, 2} : \E r \in RulesOf(h, us) :
               cmd = InsertRule(h, pos, r)
          \/ \E h \in Hooks \ {hook} : \E r \in RulesOf(h, us) : cmd = DeleteRule(h, r)
          \/ \E c \in AppTapChains : cmd = FlushChain(c)
          \/ \E c \in AppTapChains : cmd = DeleteChain(c)
      BY <1>6, CommandShapes
    <3>2. hook \notin AppTapChains
      BY DEF Hooks, AppTapChains, CHAIN_MARK, CHAIN_LOG
    <3>3. SUFFICES ASSUME Accepts(t, cmd) PROVE Effect(t, cmd)[hook] = t[hook]
      BY DEF Apply
    <3>4. CASE \E c \in AppTapChains : cmd = NewChain(c)
      BY <1>1, <3>2, <3>4 DEF NewChain, Effect
    <3>5. CASE \E c \in AppTapChains : \E r \in RulesOf(c, us) : cmd = AppendRule(c, r)
      BY <1>1, <3>2, <3>5 DEF AppendRule, Effect, IsTable
    <3>6. CASE \E h \in Hooks \ {hook}, pos \in {1, 2} : \E r \in RulesOf(h, us) :
                 cmd = InsertRule(h, pos, r)
      BY <1>1, <3>6 DEF InsertRule, Effect, IsTable
    <3>7. CASE \E h \in Hooks \ {hook} : \E r \in RulesOf(h, us) : cmd = DeleteRule(h, r)
      BY <1>1, <3>7 DEF DeleteRule, Effect, IsTable
    <3>8. CASE \E c \in AppTapChains : cmd = FlushChain(c)
      BY <1>1, <3>2, <3>8 DEF FlushChain, Effect, IsTable
    <3>9. CASE \E c \in AppTapChains : cmd = DeleteChain(c)
      BY <1>1, <3>2, <3>9 DEF DeleteChain, Effect, Restrict, IsTable
    <3>10. QED
      BY <3>1, <3>4, <3>5, <3>6, <3>7, <3>8, <3>9
  <2>3. QED
    BY <1>3, <2>1, <2>2
<1>7. QED
  BY <1>4, <1>5, <1>6

(* What a command makes of a chain of AppTap's: it is there only if it was *)
(* or was just created, empty after it was flushed and for as long as      *)
(* nothing was appended, and survives its deletion only with rules or a    *)
(* jump to it.                                                             *)
LEMMA ApplyChain ==
  ASSUME NEW us, NEW t, IsTable(t, us), NEW cmd \in Commands(us), NEW c \in AppTapChains,
         c \in DOMAIN Apply(t, cmd)
  PROVE  /\ c \in DOMAIN t \/ cmd = NewChain(c)
         /\ cmd = FlushChain(c) => Apply(t, cmd)[c] = <<>>
         /\ cmd = DeleteChain(c) => t[c] # <<>> \/ References(t, c)
         /\ t[c] = <<>> /\ c \in DOMAIN t => \/ Apply(t, cmd)[c] = <<>>
                                             \/ \E r \in RulesOf(c, us) : cmd = AppendRule(c, r)
<1>1. CASE \E d \in AppTapChains : cmd = NewChain(d)
  BY <1>1 DEF NewChain, FlushChain, DeleteChain, Apply, Accepts, Effect
<1>2. CASE \E d \in AppTapChains : \E r \in RulesOf(d, us) : cmd = AppendRule(d, r)
  <2>1. PICK d \in AppTapChains : \E r \in RulesOf(d, us) : cmd = AppendRule(d, r)
    BY <1>2
  <2>2. PICK r \in RulesOf(d, us) : cmd = AppendRule(d, r)
    BY <2>1
  <2>3. Apply(t, cmd) = t \/ Apply(t, cmd) = [t EXCEPT ![d] = Append(@, r)]
    BY <2>2 DEF AppendRule, Apply, Effect
  <2>4. cmd # FlushChain(c) /\ cmd # DeleteChain(c)
    BY <2>2 DEF AppendRule, FlushChain, DeleteChain
  <2>5. QED
    BY <2>2, <2>3, <2>4 DEF IsTable
<1>3. CASE \E hook \in Hooks, pos \in {1, 2} : \E r \in RulesOf(hook, us) :
             cmd = InsertRule(hook, pos, r)
  BY <1>3 DEF InsertRule, FlushChain, DeleteChain, Apply, Effect, IsTable, Hooks, AppTapChains,
              CHAIN_MARK, CHAIN_LOG
<1>4. CASE \E hook \in Hooks : \E r \in RulesOf(hook, us) : cmd = DeleteRule(hook, r)
  BY <1>4 DEF DeleteRule, FlushChain, DeleteChain, Apply, Effect, IsTable, Hooks, AppTapChains,
              CHAIN_MARK, CHAIN_LOG
<1>5. CASE \E d \in AppTapChains : cmd = FlushChain(d)
  BY <1>5 DEF FlushChain, DeleteChain, Apply, Accepts, Effect, IsTable
<1>6. CASE \E d \in AppTapChains : cmd = DeleteChain(d)
  BY <1>6 DEF FlushChain, DeleteChain, Apply, Accepts, Effect, Restrict, IsTable
<1>7. QED
  BY <1>1, <1>2, <1>3, <1>4, <1>5, <1>6, CommandShapes

------------------------------------------------------------------------------
(* The scripts, line by line.                                              *)

LEMMA TeardownLines ==
  /\ \A j \in JumpLines : /\ build_teardown[j] = DeleteRule(JumpHook[j], JumpOf(j))
                          /\ build_teardown[j + 3] = DeleteRule(JumpHook[j], JumpOf(j))
  /\ \A c \in ChainLines : /\ build_teardown[6 + c] = FlushChain(ChainAt[c])
                           /\ build_teardown[8 + c] = DeleteChain(ChainAt[c])
<1>1. /\ build_teardown[1] = DeleteRule("PREROUTING", Jump(CHAIN_LOG))
      /\ build_teardown[2] = DeleteRule("OUTPUT", Jump(CHAIN_LOG))
      /\ build_teardown[3] = DeleteRule("OUTPUT", Jump(CHAIN_MARK))
      /\ build_teardown[4] = DeleteRule("PREROUTING", Jump(CHAIN_LOG))
      /\ build_teardown[5] = DeleteRule("OUTPUT", Jump(CHAIN_LOG))
      /\ build_teardown[6] = DeleteRule("OUTPUT", Jump(CHAIN_MARK))
      /\ build_teardown[7] = FlushChain(CHAIN_MARK)
      /\ build_teardown[8] = FlushChain(CHAIN_LOG)
      /\ build_teardown[9] = DeleteChain(CHAIN_MARK)
      /\ build_teardown[10] = DeleteChain(CHAIN_LOG)
  BY DEF build_teardown, DeleteJumps
<1>2. ASSUME NEW j \in JumpLines
      PROVE  /\ build_teardown[j] = DeleteRule(JumpHook[j], JumpOf(j))
             /\ build_teardown[j + 3] = DeleteRule(JumpHook[j], JumpOf(j))
  <2>1. j = 1 \/ j = 2 \/ j = 3
    BY DEF JumpLines
  <2>2. QED
    BY <1>1, <2>1 DEF JumpHook, JumpChain, JumpOf
<1>3. ASSUME NEW c \in ChainLines
      PROVE  /\ build_teardown[6 + c] = FlushChain(ChainAt[c])
             /\ build_teardown[8 + c] = DeleteChain(ChainAt[c])
  <2>1. c = 1 \/ c = 2
    BY DEF ChainLines
  <2>2. QED
    BY <1>1, <2>1 DEF ChainAt
<1>4. QED
  BY <1>2, <1>3

LEMMA SetupLines ==
  /\ build_setup[1] = NewChain(CHAIN_MARK) /\ build_setup[2] = NewChain(CHAIN_LOG)
  /\ build_setup[3] = PerUid
  /\ build_setup[4] = AppendRule(CHAIN_LOG, RestoreMark)
  /\ build_setup[5] = AppendRule(CHAIN_LOG, Nflog)
  /\ build_setup[6] = InsertRule("OUTPUT", 1, Jump(CHAIN_MARK))
  /\ build_setup[7] = InsertRule("OUTPUT", 2, Jump(CHAIN_LOG))
  /\ build_setup[8] = InsertRule("PREROUTING", 1, Jump(CHAIN_LOG))
BY DEF build_setup

(* The three jumps, and the two chains, are different from each other. *)
LEMMA JumpsAndChains ==
  /\ \A j \in JumpLines : JumpHook[j] \in Hooks /\ JumpChain[j] \in AppTapChains
  /\ \A i, j \in JumpLines : JumpHook[i] = JumpHook[j] /\ JumpOf(i) = JumpOf(j) => i = j
  /\ \A c \in ChainLines : ChainAt[c] \in AppTapChains
  /\ \A c, d \in ChainLines : ChainAt[c] = ChainAt[d] => c = d
  /\ \A chain \in AppTapChains : \E c \in ChainLines : chain = ChainAt[c]
BY DEF JumpLines, JumpHook, JumpChain, JumpOf, Jump, ChainLines, ChainAt, Hooks, AppTapChains,
       CHAIN_MARK, CHAIN_LOG

(* The rules that refer to a chain of AppTap are its jumps. *)
LEMMA ReferencedByJump ==
  ASSUME NEW us, NEW t, IsTable(t, us), NEW c \in AppTapChains, References(t, c)
  PROVE  \E j \in JumpLines : JumpChain[j] = c /\ Places(t[JumpHook[j]], JumpOf(j)) # {}
<1>1. PICK d \in DOMAIN t : \E i \in DOMAIN t[d] : t[d][i].target = c
  BY DEF References
<1>2. PICK i \in DOMAIN t[d] : t[d][i].target = c
  BY <1>1
<1>3. t[d][i] \in RulesOf(d, us) /\ d \in Hooks \cup AppTapChains
  <2>1. t[d] \in Seq(RulesOf(d, us)) /\ d \in Hooks \cup AppTapChains
    BY DEF IsTable
  <2>2. QED
    BY <2>1
<1>4. t[d][i] = Jump(c)
  BY <1>2, <1>3
     DEF RulesOf, Rules, Jump, RestoreMark, Nflog, DeviceRule, SetXmark, AppTapChains,
         CHAIN_MARK, CHAIN_LOG
<1>5. c \in TargetsOf[d]
  BY <1>2, <1>3 DEF RulesOf
<1>6. \E j \in JumpLines : JumpHook[j] = d /\ JumpChain[j] = c
  <2>1. (d = "OUTPUT" /\ c \in {CHAIN_LOG, CHAIN_MARK}) \/ (d = "PREROUTING" /\ c = CHAIN_LOG)
    BY <1>3, <1>5 DEF Hooks, AppTapChains, CHAIN_MARK, CHAIN_LOG, TargetsOf
  <2>2. {1, 2, 3} \subseteq JumpLines
    BY DEF JumpLines
  <2>3. QED
    BY <2>1, <2>2 DEF JumpHook, JumpChain
<1>7. QED
  BY <1>2, <1>4, <1>6 DEF Places, JumpOf

------------------------------------------------------------------------------
(* What the scripts make of a table nobody else touches.                   *)

(* The teardown, line by line. *)
LEMMA ClearedLine ==
  ASSUME NEW us, NEW t, IsTable(t, us), NEW n \in 0..9, Cleared(t, n)
  PROVE  Cleared(Apply(t, build_teardown[n + 1]), n + 1)
<1> DEFINE cmd == build_teardown[n + 1]
           after == Apply(t, cmd)
<1>1. cmd \in Commands(us)
  BY DEF Commands, build_teardown, DeleteJumps
<1>2. cmd.op \in {"-D", "-F", "-X"}
  BY DEF build_teardown, DeleteJumps, DeleteRule, FlushChain, DeleteChain
<1>3. /\ \A hook, pos, r : cmd # InsertRule(hook, pos, r)
      /\ \A c : cmd # NewChain(c)
      /\ \A c, r : cmd # AppendRule(c, r)
  BY <1>2 DEF InsertRule, NewChain, AppendRule
<1>4. /\ \A j \in JumpLines : n + 1 = j \/ n + 1 = j + 3 => cmd = DeleteRule(JumpHook[j], JumpOf(j))
      /\ \A c \in ChainLines : /\ n + 1 = 6 + c => cmd = FlushChain(ChainAt[c])
                               /\ n + 1 = 8 + c => cmd = DeleteChain(ChainAt[c])
  BY TeardownLines
<1> HIDE DEF cmd
<1>5. ASSUME NEW j \in JumpLines
      PROVE  Cardinality(Places(after[JumpHook[j]], JumpOf(j))) <= CopiesLeft(j, n + 1)
  <2> DEFINE C == Cardinality(Places(t[JumpHook[j]], JumpOf(j)))
             Q == Cardinality(Places(after[JumpHook[j]], JumpOf(j)))
  <2>1. /\ C \in Nat /\ Q \in Nat /\ Q <= C
        /\ n + 1 = j \/ n + 1 = j + 3 => Q = 0 \/ Q <= C - 1
    BY <1>1, <1>3, <1>4, ApplyPlaces, JumpsAndChains
  <2>2. C <= CopiesLeft(j, n)
    BY DEF Cleared
  <2> HIDE DEF C, Q
  <2>3. Q <= CopiesLeft(j, n + 1)
    <3>1. j \in 1..3
      BY DEF JumpLines
    <3>2. QED
      BY <2>1, <2>2, <3>1 DEF CopiesLeft
  <2>4. QED
    BY <2>3 DEF Q
<1>6. ASSUME NEW c \in ChainLines, ChainAt[c] \in DOMAIN after
      PROVE  n + 1 < 8 + c /\ (n + 1 >= 6 + c => after[ChainAt[c]] = <<>>)
  <2> DEFINE chain == ChainAt[c]
  <2>1. /\ chain \in DOMAIN t
        /\ cmd = FlushChain(chain) => after[chain] = <<>>
        /\ cmd = DeleteChain(chain) => t[chain] # <<>> \/ References(t, chain)
        /\ t[chain] = <<>> => after[chain] = <<>>
    BY <1>1, <1>3, <1>6, ApplyChain, JumpsAndChains
  <2>2. n < 8 + c /\ (n >= 6 + c => t[chain] = <<>>)
    BY <2>1 DEF Cleared
  <2>3. c \in 1..2
    BY DEF ChainLines
  <2>4. n >= 6 => ~References(t, chain)
    <3>1. SUFFICES ASSUME n >= 6, NEW j \in JumpLines
                   PROVE  Places(t[JumpHook[j]], JumpOf(j)) = {}
      BY ReferencedByJump, JumpsAndChains
    <3>2. CopiesLeft(j, n) = 0
      BY <3>1 DEF CopiesLeft, JumpLines
    <3>3. t[JumpHook[j]] \in Seq(RulesOf(JumpHook[j], us))
      BY JumpsAndChains DEF IsTable
    <3>4. /\ IsFiniteSet(Places(t[JumpHook[j]], JumpOf(j)))
          /\ Cardinality(Places(t[JumpHook[j]], JumpOf(j))) \in Nat
      BY <3>3, PlacesFinite
    <3>5. Cardinality(Places(t[JumpHook[j]], JumpOf(j))) <= 0
      BY <3>2 DEF Cleared
    <3>6. QED
      BY <3>4, <3>5, FS_EmptySet
  <2>5. n + 1 # 8 + c
    BY <1>4, <2>1, <2>2, <2>3, <2>4
  <2>6. n + 1 = 6 + c => after[chain] = <<>>
    BY <1>4, <2>1
  <2>7. QED
    BY <2>1, <2>2, <2>3, <2>5, <2>6
<1>7. QED
  BY <1>5, <1>6 DEF Cleared, cmd

(* What it leaves is what the setup begins with: other programs' rules. *)
LEMMA ClearedIsUnbuilt ==
  ASSUME NEW us, NEW t, IsTable(t, us), Cleared(t, 10)
  PROVE  Built(t, 0, {})
<1>1. \A c \in ChainLines : ChainAt[c] \notin DOMAIN t
  BY DEF Cleared, ChainLines
<1>2. DOMAIN t = Hooks
  <2>1. \A chain \in AppTapChains : chain \notin DOMAIN t
    BY <1>1, JumpsAndChains
  <2>2. QED
    BY <2>1 DEF IsTable
<1>3. ASSUME NEW j \in JumpLines
      PROVE  \A i \in DOMAIN t[JumpHook[j]] : t[JumpHook[j]][i] # JumpOf(j)
  <2>1. t[JumpHook[j]] \in Seq(RulesOf(JumpHook[j], us))
    BY JumpsAndChains DEF IsTable
  <2>2. /\ IsFiniteSet(Places(t[JumpHook[j]], JumpOf(j)))
        /\ Cardinality(Places(t[JumpHook[j]], JumpOf(j))) \in Nat
    BY <2>1, PlacesFinite
  <2>3. CopiesLeft(j, 10) = 0
    BY DEF CopiesLeft, JumpLines
  <2>4. Cardinality(Places(t[JumpHook[j]], JumpOf(j))) <= 0
    BY <2>3 DEF Cleared
  <2>5. Places(t[JumpHook[j]], JumpOf(j)) = {}
    BY <2>2, <2>4, FS_EmptySet
  <2>6. QED
    BY <2>5 DEF Places
<1>4. /\ \A i \in DOMAIN t["PREROUTING"] : t["PREROUTING"][i] # Jump(CHAIN_LOG)
      /\ \A i \in DOMAIN t["OUTPUT"] : t["OUTPUT"][i] \notin {Jump(CHAIN_LOG), Jump(CHAIN_MARK)}
  <2>1. 1 \in JumpLines /\ 2 \in JumpLines /\ 3 \in JumpLines
    BY DEF JumpLines
  <2>2. /\ JumpHook[1] = "PREROUTING" /\ JumpHook[2] = "OUTPUT" /\ JumpHook[3] = "OUTPUT"
        /\ JumpOf(1) = Jump(CHAIN_LOG) /\ JumpOf(2) = Jump(CHAIN_LOG) /\ JumpOf(3) = Jump(CHAIN_MARK)
    BY DEF JumpHook, JumpOf, JumpChain
  <2>3. QED
    BY <1>3, <2>1, <2>2
<1>5. /\ t["OUTPUT"] \in Seq(RulesOf("OUTPUT", us))
      /\ t["PREROUTING"] \in Seq(RulesOf("PREROUTING", us))
  BY DEF IsTable, Hooks
<1>6. /\ RulesOf("OUTPUT", us) \subseteq {DeviceRule, Jump(CHAIN_LOG), Jump(CHAIN_MARK)}
      /\ RulesOf("PREROUTING", us) \subseteq {Jump(CHAIN_LOG)}
  BY DEF RulesOf, Rules, TargetsOf, Jump, RestoreMark, Nflog, DeviceRule, SetXmark, AppTapChains,
         CHAIN_MARK, CHAIN_LOG
<1>7. \A i \in DOMAIN t["OUTPUT"] : t["OUTPUT"][i] = DeviceRule
  BY <1>4, <1>5, <1>6
<1>8. t["PREROUTING"] = <<>>
  BY <1>4, <1>5, <1>6
<1>9. ChainsBuilt(0) = {} /\ OutputBuilt(0) = <<>>
  BY DEF ChainsBuilt, ChainLines, OutputBuilt
<1>10. QED
  BY <1>2, <1>5, <1>7, <1>8, <1>9 DEF Built

(* What a table looks like at each line of the setup, and that nobody can  *)
(* tell line 2 from line 3.                                                *)
LEMMA BuiltParts ==
  /\ ChainsBuilt(0) = {} /\ ChainsBuilt(1) = {CHAIN_MARK}
  /\ \A n \in 2..8 : ChainsBuilt(n) = AppTapChains
  /\ \A n \in 0..5 : OutputBuilt(n) = <<>>
  /\ OutputBuilt(6) = <<Jump(CHAIN_MARK)>>
  /\ \A n \in 7..8 : OutputBuilt(n) = <<Jump(CHAIN_MARK), Jump(CHAIN_LOG)>>
<1>1. {c \in ChainLines : c <= 0} = {} /\ {c \in ChainLines : c <= 1} = {1}
  BY DEF ChainLines
<1>2. \A n \in 2..8 : {c \in ChainLines : c <= n} = {1, 2}
  BY DEF ChainLines
<1>3. /\ ChainsBuilt(0) = {} /\ ChainsBuilt(1) = {CHAIN_MARK}
      /\ \A n \in 2..8 : ChainsBuilt(n) = AppTapChains
  BY <1>1, <1>2 DEF ChainsBuilt, ChainAt, AppTapChains
<1>4. QED
  BY <1>3 DEF OutputBuilt

(* The setup, line by line. *)
LEMMA BuiltLine ==
  ASSUME NEW vs, NEW t, IsTable(t, vs), NEW us, NEW n \in 0..7 \ {2}, Built(t, n, us),
         n = 0 => us = {}
  PROVE  Built(Apply(t, build_setup[n + 1]), n + 1, us)
<1> DEFINE after == Apply(t, build_setup[n + 1])
<1>1. /\ t["OUTPUT"] \in Seq(RulesOf("OUTPUT", vs)) /\ "OUTPUT" \in DOMAIN t
      /\ "PREROUTING" \in DOMAIN t
      /\ {"OUTPUT", "PREROUTING"} \cap AppTapChains = {} /\ CHAIN_MARK # CHAIN_LOG
      /\ CHAIN_MARK \in AppTapChains /\ CHAIN_LOG \in AppTapChains
  BY DEF IsTable, Hooks, AppTapChains, CHAIN_MARK, CHAIN_LOG
<1>2. /\ DOMAIN t = Hooks \cup ChainsBuilt(n)
      /\ n >= 1 => /\ t[CHAIN_MARK] \in Seq({SetXmark(u) : u \in us})
                   /\ \A u \in us : SetXmark(u) \in ToSet(t[CHAIN_MARK])
      /\ n >= 2 => t[CHAIN_LOG] = LogBuilt(n)
      /\ Len(t["OUTPUT"]) >= Len(OutputBuilt(n))
      /\ \A i \in DOMAIN t["OUTPUT"] :
           t["OUTPUT"][i] = IF i <= Len(OutputBuilt(n)) THEN OutputBuilt(n)[i] ELSE DeviceRule
      /\ t["PREROUTING"] = <<>>
  BY DEF Built
<1>3. \A r : RestoreMark.target \notin AppTapChains /\ Nflog.target \notin AppTapChains
             /\ Jump(CHAIN_MARK).target = CHAIN_MARK /\ Jump(CHAIN_LOG).target = CHAIN_LOG
  BY DEF RestoreMark, Nflog, Jump, AppTapChains, CHAIN_MARK, CHAIN_LOG
<1>4. CASE n = 0
  <2>1. after = [c \in DOMAIN t \cup {CHAIN_MARK} |-> IF c = CHAIN_MARK THEN <<>> ELSE t[c]]
    <3>1. build_setup[n + 1] = NewChain(CHAIN_MARK)
      BY <1>4, SetupLines
    <3>2. CHAIN_MARK \notin DOMAIN t
      BY <1>1, <1>2, <1>4, BuiltParts DEF Hooks
    <3>3. QED
      BY <3>1, <3>2 DEF NewChain, Apply, Accepts, Effect
  <2>2. DOMAIN after = Hooks \cup {CHAIN_MARK}
    BY <1>2, <1>4, <2>1, BuiltParts
  <2>3. after[CHAIN_MARK] = <<>> /\ after["OUTPUT"] = t["OUTPUT"] /\ after["PREROUTING"] = <<>>
    BY <1>1, <1>2, <2>1
  <2>4. <<>> \in Seq({SetXmark(u) : u \in us})
    OBVIOUS
  <2>5. QED
    BY <1>2, <1>4, <2>2, <2>3, <2>4, BuiltParts DEF Built
<1>5. CASE n = 1
  <2>1. after = [c \in DOMAIN t \cup {CHAIN_LOG} |-> IF c = CHAIN_LOG THEN <<>> ELSE t[c]]
    <3>1. build_setup[n + 1] = NewChain(CHAIN_LOG)
      BY <1>5, SetupLines
    <3>2. CHAIN_LOG \notin DOMAIN t
      BY <1>1, <1>2, <1>5, BuiltParts DEF Hooks
    <3>3. QED
      BY <3>1, <3>2 DEF NewChain, Apply, Accepts, Effect
  <2>2. DOMAIN after = Hooks \cup AppTapChains
    BY <1>2, <1>5, <2>1, BuiltParts DEF AppTapChains
  <2>3. /\ after[CHAIN_MARK] = t[CHAIN_MARK] /\ after[CHAIN_LOG] = <<>>
        /\ after["OUTPUT"] = t["OUTPUT"] /\ after["PREROUTING"] = <<>>
    BY <1>1, <1>2, <1>5, <2>1, BuiltParts
  <2>4. LogBuilt(2) = <<>>
    BY DEF LogBuilt
  <2>5. QED
    BY <1>2, <1>5, <2>2, <2>3, <2>4, BuiltParts DEF Built
<1>6. CASE n = 3 \/ n = 4
  <2>1. DOMAIN t = Hooks \cup AppTapChains
    BY <1>2, <1>6, BuiltParts
  <2>2. PICK r \in {RestoreMark, Nflog} :
          /\ build_setup[n + 1] = AppendRule(CHAIN_LOG, r)
          /\ Append(t[CHAIN_LOG], r) = LogBuilt(n + 1)
    <3>1. CASE n = 3
      <4>1. build_setup[n + 1] = AppendRule(CHAIN_LOG, RestoreMark)
        BY <3>1, SetupLines
      <4>2. t[CHAIN_LOG] = <<>> /\ LogBuilt(n + 1) = <<RestoreMark>>
        BY <1>2, <3>1 DEF LogBuilt
      <4>3. Append(t[CHAIN_LOG], RestoreMark) = LogBuilt(n + 1)
        BY <4>2
      <4>4. QED
        BY <4>1, <4>3
    <3>2. CASE n = 4
      <4>1. build_setup[n + 1] = AppendRule(CHAIN_LOG, Nflog)
        BY <3>2, SetupLines
      <4>2. t[CHAIN_LOG] = <<RestoreMark>> /\ LogBuilt(n + 1) = <<RestoreMark, Nflog>>
        BY <1>2, <3>2 DEF LogBuilt
      <4>3. Append(t[CHAIN_LOG], Nflog) = LogBuilt(n + 1)
        BY <4>2
      <4>4. QED
        BY <4>1, <4>3
    <3>3. QED
      BY <1>6, <3>1, <3>2
  <2>3. after = [t EXCEPT ![CHAIN_LOG] = LogBuilt(n + 1)]
    <3>1. CHAIN_LOG \in DOMAIN t /\ TargetExists(t, r)
      BY <1>1, <1>3, <2>1 DEF TargetExists
    <3>2. after = [t EXCEPT ![CHAIN_LOG] = Append(t[CHAIN_LOG], r)]
      <4>1. Accepts(t, AppendRule(CHAIN_LOG, r))
        BY <3>1 DEF AppendRule, Accepts
      <4>2. Effect(t, AppendRule(CHAIN_LOG, r)) = [t EXCEPT ![CHAIN_LOG] = Append(t[CHAIN_LOG], r)]
        BY DEF AppendRule, Effect
      <4>3. QED
        BY <2>2, <4>1, <4>2 DEF Apply
    <3>3. QED
      BY <2>2, <3>2
  <2>4. /\ DOMAIN after = DOMAIN t /\ after[CHAIN_LOG] = LogBuilt(n + 1)
        /\ after[CHAIN_MARK] = t[CHAIN_MARK] /\ after["OUTPUT"] = t["OUTPUT"]
        /\ after["PREROUTING"] = <<>>
    BY <1>1, <1>2, <2>1, <2>3
  <2>5. QED
    BY <1>2, <1>6, <2>1, <2>4, BuiltParts DEF Built
<1>7. CASE n = 5 \/ n = 6
  <2>1. DOMAIN t = Hooks \cup AppTapChains
    BY <1>2, <1>7, BuiltParts
  <2>2. PICK pos \in {1, 2}, c \in AppTapChains :
          /\ pos = n - 4 /\ (c = IF n = 5 THEN CHAIN_MARK ELSE CHAIN_LOG)
          /\ build_setup[n + 1] = InsertRule("OUTPUT", pos, Jump(c))
    BY <1>1, <1>7, SetupLines
  <2>3. /\ Len(OutputBuilt(n)) = pos - 1 /\ Len(OutputBuilt(n + 1)) = pos
        /\ OutputBuilt(n + 1)[pos] = Jump(c)
        /\ \A i \in 1..pos - 1 : OutputBuilt(n + 1)[i] = OutputBuilt(n)[i]
    <3>1. CASE n = 5
      BY <2>2, <3>1, BuiltParts
    <3>2. CASE n = 6
      BY <2>2, <3>2, BuiltParts
    <3>3. QED
      BY <1>7, <3>1, <3>2
  <2>4. pos \in 1..Len(t["OUTPUT"]) + 1 /\ Jump(c) \in RulesOf("OUTPUT", vs)
    BY <1>1, <1>2, <2>2, <2>3, RulesBelong
  <2>5. after = [t EXCEPT !["OUTPUT"] = InsertAt(t["OUTPUT"], pos, Jump(c))]
    <3>1. TargetExists(t, Jump(c))
      BY <2>1 DEF TargetExists, Jump
    <3>2. pos <= Len(t["OUTPUT"]) + 1
      BY <2>4
    <3>3. QED
      BY <2>2, <3>1, <3>2 DEF InsertRule, Apply, Accepts, Effect
  <2> DEFINE out == InsertAt(t["OUTPUT"], pos, Jump(c))
             len == Len(t["OUTPUT"])
  <2>6. /\ out \in Seq(RulesOf("OUTPUT", vs)) /\ Len(out) = len + 1
        /\ \A k \in 1..len + 1 :
             out[k] = IF k < pos THEN t["OUTPUT"][k] ELSE IF k = pos THEN Jump(c) ELSE t["OUTPUT"][k - 1]
    BY <1>1, <2>4, InsertAtElements
  <2> HIDE DEF out
  <2>7. \A i \in DOMAIN out :
          out[i] = IF i <= Len(OutputBuilt(n + 1)) THEN OutputBuilt(n + 1)[i] ELSE DeviceRule
    <3>1. SUFFICES ASSUME NEW i \in 1..len + 1
                   PROVE  out[i] = IF i <= pos THEN OutputBuilt(n + 1)[i] ELSE DeviceRule
      BY <2>3, <2>6
    <3>2. CASE i < pos
      BY <1>1, <1>2, <2>2, <2>3, <2>6, <3>2
    <3>3. CASE i = pos
      BY <2>3, <2>6, <3>3
    <3>4. CASE i > pos
      <4>1. i - 1 \in DOMAIN t["OUTPUT"] /\ i - 1 > pos - 1 /\ out[i] = t["OUTPUT"][i - 1]
        BY <1>1, <2>2, <2>6, <3>4
      <4>2. t["OUTPUT"][i - 1] = DeviceRule
        BY <1>2, <2>2, <2>3, <4>1
      <4>3. QED
        BY <2>2, <3>4, <4>1, <4>2
    <3>5. QED
      BY <2>2, <3>2, <3>3, <3>4
  <2>8. Len(out) >= Len(OutputBuilt(n + 1))
    BY <1>1, <1>2, <2>2, <2>3, <2>6
  <2>9. /\ DOMAIN after = DOMAIN t /\ after["OUTPUT"] = out
        /\ after[CHAIN_LOG] = t[CHAIN_LOG] /\ after[CHAIN_MARK] = t[CHAIN_MARK]
        /\ after["PREROUTING"] = <<>>
    BY <1>1, <1>2, <2>1, <2>5 DEF out
  <2>10. LogBuilt(n + 1) = LogBuilt(n)
    BY <1>7 DEF LogBuilt
  <2> HIDE DEF after
  <2>11. ChainsBuilt(n + 1) = AppTapChains
    BY <1>7, BuiltParts
  <2>12. Built(after, n + 1, us)
    BY <1>2, <1>7, <2>1, <2>7, <2>8, <2>9, <2>10, <2>11 DEF Built
  <2>13. QED
    BY <2>12 DEF after
<1>8. CASE n = 7
  <2>1. DOMAIN t = Hooks \cup AppTapChains
    BY <1>2, <1>8, BuiltParts
  <2>2. build_setup[n + 1] = InsertRule("PREROUTING", 1, Jump(CHAIN_LOG))
    BY <1>8, SetupLines
  <2>3. InsertAt(<<>>, 1, Jump(CHAIN_LOG)) = <<Jump(CHAIN_LOG)>>
    BY InsertIntoEmpty
  <2>4. after = [t EXCEPT !["PREROUTING"] = <<Jump(CHAIN_LOG)>>]
    <3>1. TargetExists(t, Jump(CHAIN_LOG))
      BY <1>1, <2>1 DEF TargetExists, Jump
    <3>2. 1 <= Len(t["PREROUTING"]) + 1
      BY <1>2
    <3>3. after = [t EXCEPT !["PREROUTING"] = InsertAt(t["PREROUTING"], 1, Jump(CHAIN_LOG))]
      BY <2>2, <3>1, <3>2 DEF InsertRule, Apply, Accepts, Effect
    <3>4. QED
      BY <1>2, <2>3, <3>3
  <2>5. /\ DOMAIN after = DOMAIN t /\ after["PREROUTING"] = <<Jump(CHAIN_LOG)>>
        /\ after[CHAIN_LOG] = t[CHAIN_LOG] /\ after[CHAIN_MARK] = t[CHAIN_MARK]
        /\ after["OUTPUT"] = t["OUTPUT"]
    BY <1>1, <2>1, <2>4
  <2>6. LogBuilt(8) = LogBuilt(7) /\ OutputBuilt(8) = OutputBuilt(7) /\ ChainsBuilt(8) = AppTapChains
    BY BuiltParts DEF LogBuilt
  <2> HIDE DEF after
  <2>7. Built(after, 8, us)
    BY <1>2, <1>8, <2>1, <2>5, <2>6 DEF Built
  <2>8. QED
    BY <1>8, <2>7 DEF after
<1>9. QED
  BY <1>4, <1>5, <1>6, <1>7, <1>8

(* The loop: one turn of it, the last one included, which is the third     *)
(* line.                                                                   *)
LEMMA BuiltTurn ==
  ASSUME NEW vs, NEW t, IsTable(t, vs), NEW us, Built(t, 2, us), NEW u,
         NEW n \in {2, 3}
  PROVE  Built(Apply(t, AppendRule(CHAIN_MARK, SetXmark(u))), n, us \cup {u})
<1> DEFINE after == Apply(t, AppendRule(CHAIN_MARK, SetXmark(u)))
           S == {SetXmark(v) : v \in us \cup {u}}
<1>1. /\ "OUTPUT" \in DOMAIN t /\ "PREROUTING" \in DOMAIN t
      /\ {"OUTPUT", "PREROUTING"} \cap AppTapChains = {} /\ CHAIN_MARK # CHAIN_LOG
      /\ CHAIN_MARK \in AppTapChains /\ CHAIN_LOG \in AppTapChains
      /\ SetXmark(u).target \notin AppTapChains
  BY DEF IsTable, Hooks, AppTapChains, CHAIN_MARK, CHAIN_LOG, SetXmark
<1>2. DOMAIN t = Hooks \cup AppTapChains
  BY BuiltParts DEF Built
<1>3. after = [t EXCEPT ![CHAIN_MARK] = Append(t[CHAIN_MARK], SetXmark(u))]
  BY <1>1, <1>2 DEF AppendRule, Apply, Accepts, Effect, TargetExists
<1>4. /\ DOMAIN after = DOMAIN t /\ after[CHAIN_MARK] = Append(t[CHAIN_MARK], SetXmark(u))
      /\ after[CHAIN_LOG] = t[CHAIN_LOG] /\ after["OUTPUT"] = t["OUTPUT"]
      /\ after["PREROUTING"] = t["PREROUTING"]
  BY <1>1, <1>2, <1>3
<1>5. /\ t[CHAIN_MARK] \in Seq({SetXmark(v) : v \in us})
      /\ \A v \in us : SetXmark(v) \in ToSet(t[CHAIN_MARK])
  BY DEF Built
<1>6. after[CHAIN_MARK] \in Seq(S)
  <2>1. t[CHAIN_MARK] \in Seq(S) /\ SetXmark(u) \in S
    <3>1. {SetXmark(v) : v \in us} \subseteq S /\ SetXmark(u) \in S
      OBVIOUS
    <3> HIDE DEF S
    <3>2. QED
      BY <1>5, <3>1
  <2> HIDE DEF S
  <2>2. QED
    BY <1>4, <2>1
<1>7. \A v \in us \cup {u} : SetXmark(v) \in ToSet(after[CHAIN_MARK])
  <2>1. /\ Len(after[CHAIN_MARK]) = Len(t[CHAIN_MARK]) + 1
        /\ \A i \in 1..Len(t[CHAIN_MARK]) : after[CHAIN_MARK][i] = t[CHAIN_MARK][i]
        /\ after[CHAIN_MARK][Len(t[CHAIN_MARK]) + 1] = SetXmark(u)
        /\ Len(t[CHAIN_MARK]) \in Nat
        /\ DOMAIN t[CHAIN_MARK] = 1..Len(t[CHAIN_MARK])
        /\ DOMAIN after[CHAIN_MARK] = 1..Len(t[CHAIN_MARK]) + 1
    <3> DEFINE R == {SetXmark(v) : v \in us}
    <3>1. t[CHAIN_MARK] \in Seq(R)
      BY <1>5
    <3> HIDE DEF R
    <3>2. QED
      BY <1>4, <1>6, <3>1
  <2>2. SUFFICES ASSUME NEW v \in us \cup {u}
                 PROVE  \E i \in DOMAIN after[CHAIN_MARK] : after[CHAIN_MARK][i] = SetXmark(v)
    BY DEF ToSet
  <2>3. CASE v = u
    BY <2>1, <2>3
  <2>4. CASE v \in us
    <3>1. PICK i \in 1..Len(t[CHAIN_MARK]) : t[CHAIN_MARK][i] = SetXmark(v)
      BY <1>5, <2>1, <2>4 DEF ToSet
    <3>2. QED
      BY <2>1, <3>1
  <2>5. QED
    BY <2>3, <2>4
<1>8. /\ LogBuilt(n) = LogBuilt(2) /\ OutputBuilt(n) = OutputBuilt(2)
      /\ ChainsBuilt(n) = ChainsBuilt(2)
  BY BuiltParts DEF LogBuilt
<1> HIDE DEF after
<1>9. Built(after, n, us \cup {u})
  BY <1>4, <1>6, <1>7, <1>8 DEF Built
<1>10. QED
  BY <1>9 DEF after

(* Other programs' rules come after the jumps, and nothing of the setup is *)
(* lost with them.                                                         *)
LEMMA BuiltOutput ==
  ASSUME NEW vs, NEW t, IsTable(t, vs), NEW us, NEW n \in 0..8, Built(t, n, us),
         NEW rules, Len(rules) >= Len(OutputBuilt(n)),
         \A i \in DOMAIN rules :
           rules[i] = IF i <= Len(OutputBuilt(n)) THEN OutputBuilt(n)[i] ELSE DeviceRule
  PROVE  Built([t EXCEPT !["OUTPUT"] = rules], n, us)
<1> DEFINE after == [t EXCEPT !["OUTPUT"] = rules]
<1>1. /\ "OUTPUT" \in DOMAIN t /\ "PREROUTING" # "OUTPUT" /\ CHAIN_MARK # "OUTPUT"
      /\ CHAIN_LOG # "OUTPUT"
  BY DEF IsTable, Hooks, CHAIN_MARK, CHAIN_LOG
<1>2. DOMAIN after = DOMAIN t /\ after["OUTPUT"] = rules /\ \A c : c # "OUTPUT" => after[c] = t[c]
  BY <1>1
<1> HIDE DEF after
<1>3. Built(after, n, us)
  BY <1>1, <1>2 DEF Built
<1>4. QED
  BY <1>3 DEF after

LEMMA BuiltDevice ==
  ASSUME NEW vs, NEW t, IsTable(t, vs), NEW us, NEW n \in 0..8, Built(t, n, us)
  PROVE  /\ Built([t EXCEPT !["OUTPUT"] = InsertAt(t["OUTPUT"], Len(t["OUTPUT"]) + 1, DeviceRule)],
                  n, us)
         /\ DeviceRule \in ToSet(t["OUTPUT"]) =>
              Built([t EXCEPT !["OUTPUT"] = RemoveFirst(t["OUTPUT"], DeviceRule)], n, us)
<1> DEFINE out == t["OUTPUT"]
           head == OutputBuilt(n)
           R == RulesOf("OUTPUT", vs)
<1>1. /\ out \in Seq(R) /\ DeviceRule \in R /\ Len(out) \in Nat /\ DOMAIN out = 1..Len(out)
  <2>1. out \in Seq(R)
    BY DEF IsTable, Hooks
  <2>2. QED
    BY <2>1, RulesBelong
<1>2. /\ Len(out) >= Len(head)
      /\ \A i \in 1..Len(out) : out[i] = IF i <= Len(head) THEN head[i] ELSE DeviceRule
  BY <1>1 DEF Built
<1>3. Len(head) \in Nat /\ \A i \in 1..Len(head) : head[i] # DeviceRule
  <2>1. Len(head) \in Nat /\ \A i \in 1..Len(head) : head[i] \in {Jump(CHAIN_MARK), Jump(CHAIN_LOG)}
    <3>1. CASE n \in 0..5
      BY <3>1, BuiltParts
    <3>2. CASE n = 6
      BY <3>2, BuiltParts
    <3>3. CASE n \in 7..8
      BY <3>3, BuiltParts
    <3>4. QED
      BY <3>1, <3>2, <3>3
  <2>2. DeviceRule \notin {Jump(CHAIN_MARK), Jump(CHAIN_LOG)}
    BY DEF DeviceRule, Jump, CHAIN_MARK, CHAIN_LOG
  <2>3. QED
    BY <2>1, <2>2
<1>4. Built([t EXCEPT !["OUTPUT"] = InsertAt(out, Len(out) + 1, DeviceRule)], n, us)
  <2> DEFINE more == InsertAt(out, Len(out) + 1, DeviceRule)
  <2>1. /\ more \in Seq(R) /\ Len(more) = Len(out) + 1
        /\ \A k \in 1..Len(out) + 1 :
             more[k] = IF k < Len(out) + 1 THEN out[k]
                       ELSE IF k = Len(out) + 1 THEN DeviceRule ELSE out[k - 1]
    <3>1. Len(out) + 1 \in 1..Len(out) + 1
      BY <1>1
    <3>2. QED
      BY <1>1, <3>1, InsertAtElements
  <2> HIDE DEF more, out, head
  <2>2. Len(more) >= Len(head)
    BY <1>1, <1>2, <1>3, <2>1
  <2>3. \A i \in DOMAIN more : more[i] = IF i <= Len(head) THEN head[i] ELSE DeviceRule
    BY <1>1, <1>2, <1>3, <2>1
  <2>4. QED
    BY <2>2, <2>3, BuiltOutput DEF head, more
<1>5. ASSUME DeviceRule \in ToSet(out)
      PROVE  Built([t EXCEPT !["OUTPUT"] = RemoveFirst(out, DeviceRule)], n, us)
  <2> DEFINE less == RemoveFirst(out, DeviceRule)
  <2>1. less \in Seq(R)
    BY <1>1, RemoveFirstType
  <2>2. PICK m \in 1..Len(out) : FirstRemoved(out, DeviceRule, m, less)
    BY <1>1, <1>5, RemoveFirstElements
  <2> HIDE DEF less, out, head
  <2>3. /\ out[m] = DeviceRule /\ Len(less) = Len(out) - 1
        /\ \A k \in 1..Len(out) - 1 : less[k] = IF k < m THEN out[k] ELSE out[k + 1]
    BY <2>2 DEF FirstRemoved
  <2>4. m > Len(head)
    BY <1>1, <1>2, <1>3, <2>3
  <2>5. Len(less) >= Len(head)
    BY <1>1, <1>2, <1>3, <2>3, <2>4
  <2>6. \A i \in DOMAIN less : less[i] = IF i <= Len(head) THEN head[i] ELSE DeviceRule
    <3>1. SUFFICES ASSUME NEW i \in 1..Len(out) - 1
                   PROVE  less[i] = IF i <= Len(head) THEN head[i] ELSE DeviceRule
      BY <2>1, <2>3
    <3>2. CASE i < m
      BY <1>1, <1>2, <1>3, <2>3, <2>4, <3>2
    <3>3. CASE i >= m
      <4>1. i + 1 \in 1..Len(out) /\ i + 1 > Len(head) /\ ~(i <= Len(head))
        BY <1>1, <1>3, <2>4, <3>3
      <4>2. less[i] = out[i + 1] /\ out[i + 1] = DeviceRule
        BY <1>2, <2>3, <3>3, <4>1
      <4>3. QED
        BY <4>1, <4>2
    <3>4. QED
      BY <3>2, <3>3
  <2>7. QED
    BY <2>5, <2>6, BuiltOutput DEF head, less
<1>6. QED
  BY <1>4, <1>5

(* Its rules mark for the UIDs it was built for only. *)
LEMMA BuiltMarks ==
  ASSUME NEW vs, NEW t, IsTable(t, vs), NEW us, NEW n \in 0..8, Built(t, n, us),
         NEW uid, Stamps(t, "OUTPUT", uid) # {}
  PROVE  uid \in us
<1>1. \A c \in Hooks \cup {CHAIN_LOG} : RulesOf(c, vs) = RulesOf(c, us)
  BY DEF RulesOf, Rules, TargetsOf, Hooks, CHAIN_LOG, CHAIN_MARK, AppTapChains, SetXmark
<1>2. CHAIN_MARK \in DOMAIN t => n >= 1
  BY BuiltParts DEF Built, Hooks, CHAIN_MARK
<1>3. CHAIN_MARK \in DOMAIN t => t[CHAIN_MARK] \in Seq(RulesOf(CHAIN_MARK, us))
  <2>1. {SetXmark(u) : u \in us} \subseteq RulesOf(CHAIN_MARK, us)
    BY RulesBelong
  <2>2. n >= 1 => t[CHAIN_MARK] \in Seq({SetXmark(u) : u \in us})
    BY DEF Built
  <2> DEFINE S == {SetXmark(u) : u \in us}
  <2> HIDE DEF S
  <2>3. QED
    BY <1>2, <2>1, <2>2 DEF S
<1>4. IsTable(t, us)
  <2>1. SUFFICES ASSUME NEW c \in DOMAIN t PROVE t[c] \in Seq(RulesOf(c, us))
    BY DEF IsTable
  <2>2. c \in Hooks \cup AppTapChains /\ t[c] \in Seq(RulesOf(c, vs))
    BY DEF IsTable
  <2>3. QED
    BY <1>1, <1>3, <2>2 DEF AppTapChains
<1>5. QED
  BY <1>4, StampsOnlyFor DEF Hooks

(* What a packet meets when the setup has run: in OUTPUT first the marking *)
(* rules, then the restoring and the logging one, in PREROUTING these two. *)
LEMMA BuiltVisits ==
  ASSUME NEW vs, NEW t, IsTable(t, vs), NEW us, Built(t, 8, us)
  PROVE  /\ Visited(t, "OUTPUT") = ({1} \X DOMAIN t[CHAIN_MARK]) \cup ({2} \X {1, 2})
         /\ Visited(t, "PREROUTING") = {1} \X {1, 2}
         /\ \A p \in {1} \X DOMAIN t[CHAIN_MARK] : RuleAt(t, "OUTPUT", p) = t[CHAIN_MARK][p[2]]
         /\ RuleAt(t, "OUTPUT", <<2, 1>>) = RestoreMark /\ RuleAt(t, "OUTPUT", <<2, 2>>) = Nflog
         /\ RuleAt(t, "PREROUTING", <<1, 1>>) = RestoreMark
         /\ RuleAt(t, "PREROUTING", <<1, 2>>) = Nflog
<1> DEFINE out == t["OUTPUT"]
<1>1. /\ DOMAIN t = Hooks \cup AppTapChains /\ t[CHAIN_LOG] = <<RestoreMark, Nflog>>
      /\ t["PREROUTING"] = <<Jump(CHAIN_LOG)>>
      /\ Len(out) >= 2
      /\ \A i \in DOMAIN out : out[i] = IF i <= 2 THEN OutputBuilt(8)[i] ELSE DeviceRule
  <2>1. OutputBuilt(8) = <<Jump(CHAIN_MARK), Jump(CHAIN_LOG)>> /\ ChainsBuilt(8) = AppTapChains
    BY BuiltParts
  <2>2. Len(OutputBuilt(8)) = 2 /\ LogBuilt(8) = <<RestoreMark, Nflog>>
    BY <2>1 DEF LogBuilt
  <2>3. QED
    BY <2>1, <2>2 DEF Built
<1>2. out \in Seq(RulesOf("OUTPUT", vs))
  BY DEF IsTable, Hooks
<1>3. DOMAIN out = 1..Len(out) /\ Len(out) \in Nat
  <2> DEFINE R == RulesOf("OUTPUT", vs)
  <2> HIDE DEF R
  <2>1. out \in Seq(R)
    BY <1>2 DEF R
  <2>2. QED
    BY <2>1
<1> HIDE DEF out
<1>4. /\ out[1] = Jump(CHAIN_MARK) /\ out[2] = Jump(CHAIN_LOG)
      /\ \A i \in DOMAIN out : i # 1 /\ i # 2 => out[i] = DeviceRule
      /\ 1 \in DOMAIN out /\ 2 \in DOMAIN out
  BY <1>1, <1>3, BuiltParts
<1>5. /\ Jump(CHAIN_MARK).target = CHAIN_MARK /\ Jump(CHAIN_LOG).target = CHAIN_LOG
      /\ CHAIN_MARK \in DOMAIN t /\ CHAIN_LOG \in DOMAIN t /\ DeviceRule.target \notin DOMAIN t
  BY <1>1 DEF Jump, DeviceRule, Hooks, AppTapChains, CHAIN_MARK, CHAIN_LOG
<1>6. {k \in DOMAIN out : out[k].target \in DOMAIN t} = {1, 2}
  BY <1>4, <1>5
<1>7. DOMAIN t[CHAIN_LOG] = {1, 2}
  <2>1. DOMAIN t[CHAIN_LOG] = 1..2
    BY <1>1
  <2>2. QED
    BY <2>1
<1>8. Visited(t, "OUTPUT") = ({1} \X DOMAIN t[CHAIN_MARK]) \cup ({2} \X {1, 2})
  <2>1. Visited(t, "OUTPUT") = UNION {{i} \X DOMAIN t[out[i].target] : i \in {1, 2}}
    BY <1>6 DEF Visited, out
  <2>2. out[1].target = CHAIN_MARK /\ out[2].target = CHAIN_LOG
    BY <1>4, <1>5
  <2>3. QED
    BY <1>7, <2>1, <2>2, Zenon
<1>9. Visited(t, "PREROUTING") = {1} \X {1, 2}
  <2>1. DOMAIN t["PREROUTING"] = {1} /\ t["PREROUTING"][1].target = CHAIN_LOG
    <3>1. DOMAIN t["PREROUTING"] = 1..1
      BY <1>1
    <3>2. QED
      BY <1>1, <1>5, <3>1
  <2>2. {k \in DOMAIN t["PREROUTING"] : t["PREROUTING"][k].target \in DOMAIN t} = {1}
    BY <1>5, <2>1
  <2>3. Visited(t, "PREROUTING") = UNION {{i} \X DOMAIN t[t["PREROUTING"][i].target] : i \in {1}}
    BY <2>2 DEF Visited
  <2>4. QED
    BY <1>7, <2>1, <2>3
<1>10. /\ \A p \in {1} \X DOMAIN t[CHAIN_MARK] : RuleAt(t, "OUTPUT", p) = t[CHAIN_MARK][p[2]]
       /\ RuleAt(t, "OUTPUT", <<2, 1>>) = RestoreMark /\ RuleAt(t, "OUTPUT", <<2, 2>>) = Nflog
  BY <1>1, <1>4, <1>5 DEF RuleAt, out
<1>11. /\ RuleAt(t, "PREROUTING", <<1, 1>>) = RestoreMark
       /\ RuleAt(t, "PREROUTING", <<1, 2>>) = Nflog
  BY <1>1, <1>5 DEF RuleAt
<1>12. QED
  BY <1>8, <1>9, <1>10, <1>11

(* It is logged once, if its connection is marked or gets marked on the    *)
(* way, and not at all otherwise.                                          *)
LEMMA BuiltLogs ==
  ASSUME NEW vs, NEW t, IsTable(t, vs), NEW us, Built(t, 8, us), NEW uid, NEW marked \in BOOLEAN
  PROVE  /\ Copies(t, "OUTPUT", uid, marked) = IF marked \/ uid \in us THEN 1 ELSE 0
         /\ Copies(t, "PREROUTING", NoUid, marked) = IF marked THEN 1 ELSE 0
<1> DEFINE Marking == {1} \X DOMAIN t[CHAIN_MARK]
           Logged(hook, u) ==
             {p \in Visited(t, hook) :
                /\ RuleAt(t, hook, p) = Nflog
                /\ \E q \in Visited(t, hook) :
                     /\ RuleAt(t, hook, q) = RestoreMark
                     /\ Precedes(q, p)
                     /\ marked \/ \E s \in Stamps(t, hook, u) : Precedes(s, q)}
<1>1. /\ Visited(t, "OUTPUT") = Marking \cup {<<2, 1>>, <<2, 2>>}
      /\ Visited(t, "PREROUTING") = {<<1, 1>>, <<1, 2>>}
  BY BuiltVisits
<1>2. /\ \A p \in Marking : RuleAt(t, "OUTPUT", p) \in {SetXmark(u) : u \in us} /\ p[1] = 1
      /\ \A u \in us : \E p \in Marking : RuleAt(t, "OUTPUT", p) = SetXmark(u)
  <2>1. /\ t[CHAIN_MARK] \in Seq({SetXmark(u) : u \in us})
        /\ \A u \in us : SetXmark(u) \in ToSet(t[CHAIN_MARK])
    BY DEF Built
  <2>2. \A i \in DOMAIN t[CHAIN_MARK] : t[CHAIN_MARK][i] \in {SetXmark(u) : u \in us}
    <3> DEFINE S == {SetXmark(u) : u \in us}
    <3>1. t[CHAIN_MARK] \in Seq(S)
      BY <2>1
    <3> HIDE DEF S
    <3>2. \A i \in DOMAIN t[CHAIN_MARK] : t[CHAIN_MARK][i] \in S
      BY <3>1
    <3>3. QED
      BY <3>2 DEF S
  <2>3. \A p \in Marking : RuleAt(t, "OUTPUT", p) = t[CHAIN_MARK][p[2]] /\ p[1] = 1
                           /\ p[2] \in DOMAIN t[CHAIN_MARK]
    BY BuiltVisits
  <2>4. ASSUME NEW u \in us PROVE \E p \in Marking : RuleAt(t, "OUTPUT", p) = SetXmark(u)
    <3>1. PICK i \in DOMAIN t[CHAIN_MARK] : t[CHAIN_MARK][i] = SetXmark(u)
      BY <2>1 DEF ToSet
    <3>2. <<1, i>> \in Marking /\ <<1, i>>[2] = i
      OBVIOUS
    <3>3. QED
      BY <2>3, <3>1, <3>2
  <2>5. QED
    BY <2>2, <2>3, <2>4
<1>3. /\ RuleAt(t, "OUTPUT", <<2, 1>>) = RestoreMark /\ RuleAt(t, "OUTPUT", <<2, 2>>) = Nflog
      /\ RuleAt(t, "PREROUTING", <<1, 1>>) = RestoreMark
      /\ RuleAt(t, "PREROUTING", <<1, 2>>) = Nflog
  BY BuiltVisits
<1>4. /\ Nflog # RestoreMark /\ \A u : SetXmark(u) # Nflog /\ SetXmark(u) # RestoreMark
      /\ \A u, v : SetXmark(u) = SetXmark(v) => u = v
  BY DEF Nflog, RestoreMark, SetXmark
<1> HIDE DEF Marking
<1>5. /\ Precedes(<<2, 1>>, <<2, 2>>) /\ Precedes(<<1, 1>>, <<1, 2>>)
      /\ \A p \in Marking : Precedes(p, <<2, 1>>)
      /\ ~Precedes(<<2, 1>>, <<2, 1>>) /\ ~Precedes(<<2, 2>>, <<2, 1>>)
  BY <1>2 DEF Precedes
<1>6. \A u : Stamps(t, "OUTPUT", u) = {p \in Marking : RuleAt(t, "OUTPUT", p) = SetXmark(u)}
  BY <1>1, <1>3, <1>4 DEF Stamps
<1>7. \A u : Stamps(t, "PREROUTING", u) = {}
  BY <1>1, <1>3, <1>4 DEF Stamps
<1>8. \A u : (\E s \in Stamps(t, "OUTPUT", u) : Precedes(s, <<2, 1>>)) <=> u \in us
  BY <1>2, <1>4, <1>5, <1>6
<1>9. Logged("OUTPUT", uid) = IF marked \/ uid \in us THEN {<<2, 2>>} ELSE {}
  <2>1. \A p \in Visited(t, "OUTPUT") : /\ RuleAt(t, "OUTPUT", p) = Nflog <=> p = <<2, 2>>
                                        /\ RuleAt(t, "OUTPUT", p) = RestoreMark <=> p = <<2, 1>>
    BY <1>1, <1>2, <1>3, <1>4
  <2>2. \A p : p \in Logged("OUTPUT", uid) <=> p = <<2, 2>> /\ (marked \/ uid \in us)
    BY <1>1, <1>5, <1>8, <2>1
  <2> HIDE DEF Logged
  <2>3. QED
    BY <2>2
<1>10. Logged("PREROUTING", NoUid) = IF marked THEN {<<1, 2>>} ELSE {}
  <2>1. \A p \in Visited(t, "PREROUTING") : /\ RuleAt(t, "PREROUTING", p) = Nflog <=> p = <<1, 2>>
                                            /\ RuleAt(t, "PREROUTING", p) = RestoreMark <=> p = <<1, 1>>
    BY <1>1, <1>3, <1>4
  <2>2. \A p : p \in Logged("PREROUTING", NoUid) <=> p = <<1, 2>> /\ marked
    BY <1>1, <1>5, <1>7, <2>1
  <2> HIDE DEF Logged
  <2>3. QED
    BY <2>2
<1>11. \A x : Cardinality({x}) = 1
  BY FS_Singleton
<1>12. Cardinality({}) = 0
  BY FS_EmptySet
<1>13. /\ Copies(t, "OUTPUT", uid, marked) = Cardinality(Logged("OUTPUT", uid))
       /\ Copies(t, "PREROUTING", NoUid, marked) = Cardinality(Logged("PREROUTING", NoUid))
  BY DEF Copies
<1> HIDE DEF Logged
<1>14. QED
  BY <1>9, <1>10, <1>11, <1>12, <1>13
==============================================================================
