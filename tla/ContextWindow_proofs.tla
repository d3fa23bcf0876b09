------------------------ MODULE ContextWindow_proofs ------------------------
(***************************************************************************)
(* Theorems about ContextWindow, for any histories, limits and prompt.     *)
(***************************************************************************)
EXTENDS ContextWindow, WellFoundedInduction, TLAPS

----------------------------------------------------------------------------
(* The estimate of an end of the history.  What its recursive function     *)
(* computes is shown by the least number for which it would fail.          *)

\* A set of naturals has a least element.
LEMMA LeastElement ==
    ASSUME NEW S \in SUBSET Nat, S # {}
    PROVE  \E m \in S : \A k \in S : m <= k
  <1> DEFINE R == {p \in Nat \X Nat : p[1] < p[2]}
  <1>1. IsWellFoundedOn(R, Nat)
    BY NatLessThanWellFounded DEF OpToRel
  <1>2. \A x, y \in Nat : y < x => <<y, x>> \in R
    OBVIOUS
  <1> HIDE DEF R
  <1>3. PICK x \in S : \A y \in S : ~(<<y, x>> \in R)
    BY <1>1, WFMin
  <1>4. \A y \in S : x \in Nat /\ y \in Nat /\ ~(y < x)
    BY <1>2, <1>3
  <1>5. \A y \in S : x <= y
    BY <1>4
  <1> QED BY <1>5

LEMMA TokensIsNat == \A size \in Nat : Tokens(size) \in Nat
  BY DEF Tokens

LEMMA HistoryTokensIsNat ==
    ASSUME history \in Seq(Message), NEW n \in 1..Len(history)
    PROVE  Tokens(history[n].size) \in Nat
  <1>1. history[n] \in Message
    OBVIOUS
  <1>2. history[n].size \in Nat
    BY <1>1 DEF Message
  <1> QED BY <1>2, TokensIsNat

\* What a sum as TokensFrom takes it is defined to be, up to a place.
Sums(f, i, m) ==
    f = [n \in 0..m |-> IF n < i THEN 0 ELSE f[n - 1] + Tokens(history[n].size) + 10]

\* The sum of TokensFrom is defined on histories of any length.
LEMMA SumExists ==
    ASSUME history \in Seq(Message), NEW i \in Nat \ {0}, NEW m \in 0..Len(history)
    PROVE  \E f \in [0..m -> Nat] : Sums(f, i, m)
  <1> DEFINE S == {l \in 0..Len(history) : ~\E f \in [0..l -> Nat] : Sums(f, i, l)}
  <1>1. ASSUME NEW n \in 1..Len(history) PROVE Tokens(history[n].size) \in Nat
    BY HistoryTokensIsNat
  <1>2. S \in SUBSET Nat
    OBVIOUS
  <1>3. SUFFICES ASSUME S # {} PROVE FALSE
    OBVIOUS
  <1>4. PICK l \in S : \A k \in S : l <= k
    <2> HIDE DEF S
    <2> QED BY <1>2, <1>3, LeastElement
  <1>5. l \in 0..Len(history) /\ l \in Nat /\ Len(history) \in Nat
    OBVIOUS
  <1>6. CASE l = 0
    <2> DEFINE g == [n \in 0..0 |-> 0]
    <2>1. g \in [0..0 -> Nat]
      OBVIOUS
    <2>2. Sums(g, i, 0)
      BY DEF Sums
    <2> HIDE DEF g
    <2> QED BY <1>4, <1>6, <2>1, <2>2
  <1>7. CASE l > 0
    <2>1. l - 1 \in 0..Len(history) /\ l - 1 \notin S /\ l \in 1..Len(history)
      <3> HIDE DEF S
      <3> QED BY <1>4, <1>5, <1>7
    <2>2. PICK f \in [0..(l - 1) -> Nat] : Sums(f, i, l - 1)
      BY <2>1
    <2> DEFINE w(n) == Tokens(history[n].size) + 10
               g == [n \in 0..l |-> IF n < l THEN f[n] ELSE IF l < i THEN 0
                                    ELSE f[l - 1] + Tokens(history[l].size) + 10]
    <2>3. Tokens(history[l].size) \in Nat
      BY <1>1, <2>1
    <2>4. g \in [0..l -> Nat]
      BY <2>1, <2>3
    <2>5. ASSUME NEW n \in 0..l
          PROVE  g[n] = IF n < i THEN 0 ELSE g[n - 1] + Tokens(history[n].size) + 10
      <3>1. CASE n = l
        BY <2>1, <3>1
      <3>2. CASE n < l
        <4>1. n \in 0..(l - 1) /\ (n >= i => n - 1 \in 0..(l - 1))
          BY <2>1, <3>2
        <4>2. f[n] = IF n < i THEN 0 ELSE f[n - 1] + Tokens(history[n].size) + 10
          BY <2>2, <4>1 DEF Sums
        <4> QED BY <2>1, <3>2, <4>1, <4>2
      <3> QED BY <2>1, <3>1, <3>2
    <2>6. Sums(g, i, l)
      BY <2>4, <2>5 DEF Sums
    <2> HIDE DEF g
    <2> QED BY <1>4, <2>4, <2>6
  <1> QED BY <1>4, <1>5, <1>6, <1>7

\* The estimate is a number, and ten at least if there is a message.
LEMMA TokensFromIsNat ==
    ASSUME history \in Seq(Message), NEW i \in 1..(Len(history) + 1)
    PROVE  TokensFrom(i) \in Nat /\ (i <= Len(history) => TokensFrom(i) >= 10)
  <1> DEFINE L == Len(history)
             sum[n \in 0..L] == IF n < i THEN 0 ELSE sum[n - 1] + Tokens(history[n].size) + 10
  <1>1. TokensFrom(i) = sum[L]
    BY DEF TokensFrom
  <1>2. \E f \in [0..L -> Nat] : Sums(f, i, L)
    <2> HIDE DEF sum
    <2>1. L \in 0..L /\ i \in Nat \ {0}
      OBVIOUS
    <2> QED BY <2>1, SumExists
  <1>3. Sums(sum, i, L)
    BY <1>2 DEF Sums
  <1> HIDE DEF sum
  <1>4. L \in Nat /\ i \in Nat \ {0}
    OBVIOUS
  <1>5. \A n \in 0..L :
            sum[n] = IF n < i THEN 0 ELSE sum[n - 1] + Tokens(history[n].size) + 10
    BY <1>3 DEF Sums
  <1>6. \A n \in 1..L : Tokens(history[n].size) \in Nat
    BY HistoryTokensIsNat
  <1>7. \A n \in 0..L : sum[n] \in Nat
    <2> DEFINE S == {n \in 0..L : sum[n] \notin Nat}
    <2>1. SUFFICES ASSUME S # {} PROVE FALSE
      OBVIOUS
    <2>2. S \in SUBSET Nat
      OBVIOUS
    <2>3. PICK n \in S : \A k \in S : n <= k
      <3> HIDE DEF S
      <3> QED BY <2>1, <2>2, LeastElement
    <2>4. n \in 0..L /\ sum[n] \notin Nat
      OBVIOUS
    <2>5. ~(n < i)
      BY <1>5, <2>4
    <2>6. n - 1 \in 0..L /\ n \in 1..L /\ n - 1 < n
      BY <1>4, <2>4, <2>5
    <2>7. sum[n - 1] \in Nat
      BY <2>3, <2>6
    <2> QED BY <1>5, <1>6, <2>4, <2>5, <2>6, <2>7
  <1>8. i <= L => sum[L] >= 10
    <2> SUFFICES ASSUME i <= L PROVE sum[L] >= 10
      OBVIOUS
    <2>1. L \in 1..L /\ L - 1 \in 0..L /\ L \in 0..L /\ ~(L < i)
      BY <1>4
    <2>2. sum[L] = sum[L - 1] + Tokens(history[L].size) + 10
      BY <1>5, <2>1
    <2>3. sum[L - 1] \in Nat /\ Tokens(history[L].size) \in Nat
      BY <1>6, <1>7, <2>1
    <2> HIDE DEF L
    <2> QED BY <2>2, <2>3
  <1>9. sum[L] \in Nat
    BY <1>4, <1>7
  <1> QED BY <1>1, <1>8, <1>9

\* The estimate depends on the history only.
LEMMA SameHistorySameTokens ==
    ASSUME history' = history
    PROVE  \A i : TokensFrom(i)' = TokensFrom(i)
  BY DEF TokensFrom

\* Prompt and budget fit the limit together, unless the budget is zero.
LEMMA BudgetIsNat == Budget \in Nat /\ Tokens(PromptSize) \in Nat
    /\ (Budget > 0 => Budget + Tokens(PromptSize) <= MaxTokens)
  <1>1. PromptSize \in Nat /\ MaxTokens \in Nat /\ Tokens(PromptSize) \in Nat
    BY LimitAssumption, TokensIsNat
  <1> QED BY <1>1 DEF Budget

----------------------------------------------------------------------------
(* The loop's invariant: everything before the first message kept has been *)
(* cut off by count, or made too long an end.                              *)

Pruned ==
    /\ first \in LastOnes(history)..Len(history)
    /\ \A i \in LastOnes(history)..(first - 1) : TokensFrom(i) > Budget

Inv ==
    /\ stage \in {"idle", "prune", "build", "convert", "sent"}
    /\ history \in Seq(Message) /\ first \in 1..(Len(history) + 1)
    /\ stage = "idle" => history = <<>>
    /\ stage # "idle" /\ history # <<>> => Pruned
    /\ stage \in {"convert", "sent"} /\ history # <<>> => ~TooLong

LEMMA InitInv == Init => Inv
  BY DEF Init, Inv

LEMMA StartKeepsInv ==
    ASSUME Inv, NEW h \in Histories, Start(h)
    PROVE  Inv'
  <1>1. /\ h \in Seq(Message) /\ Len(h) \in Nat /\ MaxMessages \in Nat \ {0}
        /\ history' = h /\ first' = LastOnes(h) /\ stage' = "prune"
        /\ (h # <<>> => Len(h) > 0)
    BY HistoryAssumption, LimitAssumption DEF Start
  <1>2. first' \in 1..(Len(h) + 1) /\ (h # <<>> => first' \in LastOnes(h)..Len(h))
    BY <1>1 DEF LastOnes
  <1>3. \A i \in LastOnes(h)..(LastOnes(h) - 1) : FALSE
    BY <1>1 DEF LastOnes
  <1>4. h # <<>> => Pruned'
    BY <1>1, <1>2, <1>3 DEF Pruned
  <1> QED BY <1>1, <1>2, <1>4 DEF Inv

LEMMA PopKeepsInv ==
    ASSUME Inv, PopOldest
    PROVE  Inv'
  <1>1. /\ stage = "prune" /\ stage' = stage /\ history' = history /\ first' = first + 1
        /\ TokensFrom(first) > Budget /\ first < Len(history)
        /\ history \in Seq(Message) /\ Len(history) \in Nat /\ first \in 1..Len(history)
    BY DEF PopOldest, TooLong, Inv
  <1>2. history # <<>> /\ Pruned
    BY <1>1 DEF Inv
  <1>3. LastOnes(history) \in Nat
    BY <1>1, LimitAssumption DEF LastOnes
  <1>4. first' \in LastOnes(history)..Len(history)
    BY <1>1, <1>2, <1>3 DEF Pruned
  <1>5. \A i \in LastOnes(history)..(first' - 1) : TokensFrom(i) > Budget
    BY <1>1, <1>2, <1>3 DEF Pruned
  <1>6. Pruned'
    <2>1. \A i : TokensFrom(i)' = TokensFrom(i)
      BY <1>1, SameHistorySameTokens
    <2>2. \A i \in LastOnes(history)..(first' - 1) : TokensFrom(i)' > Budget
      BY <1>5, <2>1
    <2> QED BY <1>1, <1>4, <2>2 DEF Pruned, LastOnes, Budget
  <1> QED BY <1>1, <1>4, <1>3, <1>6 DEF Inv

\* The steps after pruning keep the window.
LEMMA RestKeepsInv ==
    ASSUME Inv, Build \/ BuildTitle \/ (\E p \in Provider : Convert(p)) \/ UNCHANGED vars
    PROVE  Inv'
  <1>1. /\ history' = history /\ first' = first
        /\ stage' \in {"convert", "sent", stage}
        /\ (stage' \in {"convert", "sent"} /\ history # <<>> => ~TooLong /\ stage # "idle")
    BY DEF Build, BuildTitle, Convert, vars, Inv
  <1>2. \A i : TokensFrom(i)' = TokensFrom(i)
    BY <1>1, SameHistorySameTokens
  <1>3. TooLong' <=> TooLong
    BY <1>1, <1>2 DEF TooLong, Budget
  <1>4. Pruned => Pruned'
    BY <1>1, <1>2 DEF Pruned, LastOnes, Budget
  <1> QED BY <1>1, <1>3, <1>4 DEF Inv

LEMMA Invariance == Spec => []Inv
  <1>1. Inv /\ [Next]_vars => Inv'
    BY StartKeepsInv, PopKeepsInv, RestKeepsInv DEF Next, Sent
  <1> QED BY <1>1, InitInv, PTL DEF Spec

----------------------------------------------------------------------------
(* The properties.                                                         *)

\* For every history and every limit, pruning keeps the longest end that fits
\* both limits, and never less than the last message.
THEOREM KeepsLongestEnd == Spec => []LongestEnd
  <1>1. ASSUME Inv, stage \in {"convert", "sent"}, history # <<>>
        PROVE  IF Fitting = {} THEN first = Len(history)
               ELSE first \in Fitting /\ \A i \in Fitting : first <= i
    <2>1. /\ history \in Seq(Message) /\ Len(history) \in Nat /\ MaxMessages \in Nat \ {0}
          /\ first \in LastOnes(history)..Len(history) /\ LastOnes(history) \in Nat \ {0}
          /\ first \in 1..Len(history)
      BY <1>1, LimitAssumption DEF Inv, Pruned, LastOnes
    <2>2. \A i \in 1..Len(history) : TokensFrom(i) \in Nat /\ Budget \in Nat
      BY <2>1, TokensFromIsNat, BudgetIsNat
    <2>3. \A i \in 1..Len(history) : Len(history) - i < MaxMessages <=> i >= LastOnes(history)
      BY <2>1 DEF LastOnes
    <2>4. \A i \in Fitting : first <= i
      <3> SUFFICES ASSUME NEW i \in Fitting, i < first PROVE FALSE
        BY <2>1 DEF Fitting
      <3>1. i \in 1..Len(history) /\ i \in LastOnes(history)..(first - 1)
        BY <2>1, <2>3 DEF Fitting
      <3>2. TokensFrom(i) > Budget /\ TokensFrom(i) <= Budget
        BY <1>1, <3>1 DEF Inv, Pruned, Fitting
      <3> QED BY <2>2, <3>1, <3>2
    <2>5. TokensFrom(first) <= Budget \/ first = Len(history)
      BY <1>1, <2>1, <2>2 DEF Inv, TooLong
    <2>6. TokensFrom(first) <= Budget => first \in Fitting
      BY <2>1, <2>3 DEF Fitting
    <2>7. CASE first \in Fitting
      BY <2>4, <2>7
    <2>8. CASE first \notin Fitting
      <3>1. first = Len(history)
        BY <2>5, <2>6, <2>8
      <3>2. \A i \in Fitting : i = first
        BY <2>1, <2>4, <3>1 DEF Fitting
      <3>3. Fitting = {}
        BY <2>8, <3>2
      <3> QED BY <3>1, <3>3
    <2> QED BY <2>7, <2>8
  <1>2. Inv => LongestEnd
    BY <1>1 DEF LongestEnd
  <1> QED BY <1>2, Invariance, PTL

\* A window of several messages is within max_context_tokens, prompt included.
THEOREM StaysWithinLimit == Spec => []CountWithinLimit
  <1>1. ASSUME Inv, stage \in {"convert", "sent"}, first < Len(history)
        PROVE  TokensFrom(first) + Tokens(PromptSize) <= MaxTokens
    <2>1. /\ history \in Seq(Message) /\ history # <<>>
          /\ first \in 1..Len(history) /\ ~TooLong
      BY <1>1 DEF Inv
    <2>2. TokensFrom(first) \in Nat /\ TokensFrom(first) >= 10
      BY <1>1, <2>1, TokensFromIsNat
    <2>3. TokensFrom(first) <= Budget
      BY <1>1, <2>1, <2>2, BudgetIsNat DEF TooLong
    <2>4. MaxTokens \in Nat
      BY LimitAssumption
    <2> QED BY <2>2, <2>3, <2>4, BudgetIsNat
  <1>2. Inv => CountWithinLimit
    BY <1>1 DEF CountWithinLimit
  <1> QED BY <1>2, Invariance, PTL

----------------------------------------------------------------------------
(* What a provider is given.  A request is the prompt, if it is a chat's,  *)
(* then what was said; the loops over it take either part whole.           *)

\* A loop over a sequence whose messages of the wanted roles stand together
\* takes that stretch.
LEMMA TakenTogether ==
    ASSUME NEW roles, NEW s \in Seq(Item), NEW e \in 0..Len(s), NEW d \in 0..e,
           \A n \in 1..Len(s) : s[n].role \in roles <=> d < n /\ n <= e
    PROVE  OfRoles(roles, s) = SubSeq(s, d + 1, e)
  <1> DEFINE L == Len(s)
             Part(n) == SubSeq(s, d + 1, IF n < e THEN n ELSE e)
             Step(f, n) == IF n = 0 THEN <<>>
                           ELSE IF s[n].role \in roles THEN Append(f[n - 1], s[n])
                           ELSE f[n - 1]
             taken[n \in 0..L] == IF n = 0 THEN <<>>
                                  ELSE IF s[n].role \in roles THEN Append(taken[n - 1], s[n])
                                  ELSE taken[n - 1]
             g == [n \in 0..L |-> Part(n)]
  <1>1. L \in Nat /\ d \in Nat /\ e \in Nat /\ d <= e /\ e <= L
    OBVIOUS
  <1>2. ASSUME NEW n \in 1..L, d < n, n <= e
        PROVE  Part(n) = Append(Part(n - 1), s[n])
    <2>1. Part(n) = SubSeq(s, d + 1, n) /\ Part(n - 1) = SubSeq(s, d + 1, n - 1)
      BY <1>1, <1>2
    <2> QED BY <1>1, <1>2, <2>1
  <1>3. \A n \in 0..d : Part(n) = <<>>
    BY <1>1
  <1>4. \A n \in 1..L : n > e => Part(n) = Part(n - 1)
    BY <1>1
  <1>step. ASSUME NEW f, NEW n \in 0..L, n = 0 \/ f[n - 1] = Part(n - 1)
           PROVE  Step(f, n) = Part(n)
    <2> HIDE DEF Part
    <2>1. CASE n = 0
      BY <1>1, <1>3, <2>1
    <2>2. CASE n # 0 /\ d < n /\ n <= e
      BY <1>1, <1>2, <1>step, <2>2
    <2>3. CASE n # 0 /\ ~(d < n)
      <3>1. n \in 0..d /\ n - 1 \in 0..d /\ s[n].role \notin roles
        BY <1>1, <2>3
      <3> QED BY <1>3, <1>step, <2>3, <3>1
    <2>4. CASE n # 0 /\ n > e
      BY <1>1, <1>4, <1>step, <2>4
    <2> QED BY <1>1, <2>1, <2>2, <2>3, <2>4
  <1> HIDE DEF Part, Step
  <1>5. g = [n \in 0..L |-> Step(g, n)]
    <2>1. ASSUME NEW n \in 0..L PROVE Part(n) = Step(g, n)
      <3>1. n = 0 \/ n - 1 \in 0..L
        BY <1>1
      <3>2. n = 0 \/ g[n - 1] = Part(n - 1)
        BY <3>1
      <3> HIDE DEF g
      <3> QED BY <1>step, <3>2
    <2> QED BY <2>1
  <1>6. taken = [n \in 0..L |-> Step(taken, n)]
    BY <1>5 DEF Step
  <1> HIDE DEF taken, g
  <1>7. ASSUME NEW n \in 0..L PROVE taken[n] = Part(n)
    <2> DEFINE S == {k \in 0..L : taken[k] # Part(k)}
    <2>1. SUFFICES ASSUME S # {} PROVE FALSE
      OBVIOUS
    <2>2. PICK k \in S : \A l \in S : k <= l
      <3>1. S \in SUBSET Nat
        OBVIOUS
      <3> HIDE DEF S
      <3> QED BY <2>1, <3>1, LeastElement
    <2>3. k \in 0..L /\ taken[k] # Part(k) /\ taken[k] = Step(taken, k)
      BY <1>6
    <2>4. k # 0 /\ taken[k - 1] # Part(k - 1)
      BY <1>step, <2>3
    <2>5. k - 1 \in 0..L /\ ~(k <= k - 1)
      BY <1>1, <2>3, <2>4
    <2> QED BY <2>2, <2>4, <2>5
  <1>8. OfRoles(roles, s) = taken[L]
    BY DEF OfRoles, taken
  <1> QED BY <1>1, <1>7, <1>8 DEF Part

SpokenItem == {m \in Item : m.role \in Spoken}

\* What is kept of a history is somebody's, and so is the new message.
LEMMA KeptItemsType ==
    ASSUME history \in Seq(Message), first \in 1..(Len(history) + 1)
    PROVE  KeptItems \in Seq(SpokenItem) /\ New \in SpokenItem /\ Prompt \in Item
  <1>1. ASSUME NEW n \in 1..(Len(history) + 1 - first) PROVE Kept(first + n - 1) \in SpokenItem
    <2>1. first + n - 1 \in 1..Len(history) /\ first + n - 1 \in Nat
      OBVIOUS
    <2>2. history[first + n - 1] \in Message
      BY <2>1
    <2>3. history[first + n - 1].role \in {"user", "assistant"}
      BY <2>2 DEF Message
    <2> QED BY <2>1, <2>3 DEF Kept, SpokenItem, Spoken, Item
  <1>2. Len(history) + 1 - first \in Nat
    OBVIOUS
  <1>3. KeptItems \in Seq(SpokenItem)
    BY <1>1, <1>2 DEF KeptItems
  <1> QED BY <1>3 DEF New, Prompt, SpokenItem, Spoken, Item

\* The parts of a sequence of a prompt or none and what was said.
LEMMA PromptThenSpoken ==
    ASSUME NEW p \in {<<>>, <<Prompt>>}, NEW k \in Seq(SpokenItem)
    PROVE  /\ p \o k \in Seq(Item)
           /\ OfRoles(Spoken, p \o k) = k
           /\ OfRoles({"system"}, p \o k) = p
  <1> DEFINE s == p \o k
             d == Len(p)
  <1>1. Prompt \in Item /\ Prompt.role = "system" /\ "system" \notin Spoken
    BY DEF Prompt, Item, Spoken
  <1>2. /\ p \in Seq(Item) /\ d \in Nat /\ \A n \in 1..d : p[n] = Prompt
        /\ k \in Seq(Item) /\ Len(k) \in Nat
        /\ \A n \in 1..Len(k) : k[n] \in SpokenItem
    <2>1. SpokenItem \subseteq Item
      BY DEF SpokenItem
    <2>2. /\ k \in Seq(Item) /\ Len(k) \in Nat
          /\ \A n \in 1..Len(k) : k[n] \in SpokenItem
      BY <2>1
    <2>3. CASE p = <<>>
      BY <2>2, <2>3
    <2>4. CASE p = <<Prompt>>
      <3>1. p \in Seq(Item) /\ Len(p) = 1 /\ p[1] = Prompt
        BY <1>1, <2>4
      <3> QED BY <2>2, <3>1
    <2> QED BY <2>3, <2>4
  <1>3. /\ s \in Seq(Item) /\ Len(s) = d + Len(k)
        /\ \A n \in 1..Len(s) : s[n] = IF n <= d THEN p[n] ELSE k[n - d]
    BY <1>2
  <1> HIDE DEF s, d
  <1>4. \A n \in 1..Len(s) : /\ n <= d => n \in 1..d
                             /\ ~(n <= d) => n - d \in 1..Len(k)
    BY <1>2, <1>3
  <1>5. \A n \in 1..Len(s) : /\ n <= d => s[n].role = "system"
                             /\ ~(n <= d) => s[n].role \in Spoken
    BY <1>1, <1>2, <1>3, <1>4 DEF SpokenItem
  <1>6. /\ Len(s) \in 0..Len(s) /\ d \in 0..Len(s) /\ 0 \in 0..d
        /\ \A n \in 1..Len(s) : 0 < n /\ n <= Len(s) /\ (d < n <=> ~(n <= d))
    BY <1>2, <1>3
  <1>7. OfRoles(Spoken, s) = SubSeq(s, d + 1, Len(s))
    <2>1. \A n \in 1..Len(s) : s[n].role \in Spoken <=> d < n /\ n <= Len(s)
      BY <1>1, <1>5, <1>6
    <2> QED BY <1>3, <1>6, <2>1, TakenTogether
  <1>8. OfRoles({"system"}, s) = SubSeq(s, 1, d)
    <2>1. \A n \in 1..Len(s) : s[n].role \in {"system"} <=> 0 < n /\ n <= d
      BY <1>1, <1>5, <1>6
    <2>2. OfRoles({"system"}, s) = SubSeq(s, 0 + 1, d)
      BY <1>3, <1>6, <2>1, TakenTogether
    <2> QED BY <2>2
  <1>9. SubSeq(s, d + 1, Len(s)) = k /\ SubSeq(s, 1, d) = p
    BY <1>2 DEF s, d
  <1> QED BY <1>3, <1>7, <1>8, <1>9 DEF s

RequestInv ==
    /\ TypeOK
    /\ stage \in {"convert", "sent"} =>
          \E p \in {<<>>, <<Prompt>>} : messages = p \o (KeptItems \o <<New>>)
    /\ ProviderSeesConversation

\* Either provider takes the prompts as instruction and the rest as contents.
LEMMA ConvertGives ==
    ASSUME Inv, RequestInv, NEW v \in Provider, Convert(v)
    PROVE  /\ given' \in [system: Seq(Item), contents: Seq(Item)]
           /\ Len(given'.system) > 0
           /\ \A n \in DOMAIN given'.system : given'.system[n] = Prompt
           /\ given'.contents = KeptItems \o <<New>>
  <1> DEFINE K == KeptItems
  <1>1. K \in Seq(SpokenItem) /\ New \in SpokenItem /\ Prompt \in Item
    BY KeptItemsType DEF Inv
  <1>2. K \o <<New>> \in Seq(SpokenItem) /\ Len(K) \in Nat
    BY <1>1
  <1>3. PICK p \in {<<>>, <<Prompt>>} : messages = p \o (K \o <<New>>)
    BY DEF RequestInv, Convert
  <1> HIDE DEF K
  <1>4. /\ OfRoles(Spoken, messages) = K \o <<New>>
        /\ OfRoles({"system"}, messages) = p
    BY <1>2, <1>3, PromptThenSpoken
  <1>5. GeminiContents = K \o <<New>>
    <2>1. p \o K \in Seq(Item) /\ OfRoles(Spoken, p \o K) = K
      BY <1>1, PromptThenSpoken
    <2>2. K \in Seq(Item) /\ New \in Item /\ p \in Seq(Item)
      <3>1. SpokenItem \subseteq Item /\ <<>> \in Seq(Item) /\ <<Prompt>> \in Seq(Item)
        BY <1>1 DEF SpokenItem
      <3>2. p \in Seq(Item)
        BY <3>1, p = <<>> \/ p = <<Prompt>>
      <3> QED BY <1>1, <3>1, <3>2
    <2>3. messages = (p \o K) \o <<New>>
      BY <1>3, <2>2
    <2> DEFINE s == p \o K
    <2> HIDE DEF s
    <2>4. s \in Seq(Item) /\ messages = Append(s, New) /\ Len(messages) = Len(s) + 1
      BY <2>1, <2>2, <2>3 DEF s
    <2>5. messages[Len(messages)] = New
      BY <2>2, <2>4
    <2>6. SubSeq(messages, 1, Len(messages) - 1) = s
      BY <2>2, <2>4
    <2>7. Append(K, New) = K \o <<New>>
      BY <2>2
    <2> QED BY <2>1, <2>5, <2>6, <2>7 DEF GeminiContents, s
  <1>6. /\ Seq(SpokenItem) \subseteq Seq(Item)
        /\ \A q \in {<<Prompt>>, <<Prompt>> \o p} :
              q \in Seq(Item) /\ Len(q) > 0 /\ \A n \in DOMAIN q : q[n] = Prompt
    <2>1. SpokenItem \subseteq Item
      BY DEF SpokenItem
    <2>2. CASE p = <<>>
      BY <1>1, <2>1, <2>2
    <2>3. CASE p = <<Prompt>>
      BY <1>1, <2>1, <2>3
    <2> QED BY <2>2, <2>3
  <1>7. \E q \in {<<Prompt>>, <<Prompt>> \o p} :
            given' = [system |-> q, contents |-> K \o <<New>>]
    BY <1>4, <1>5 DEF Convert
  <1>8. PICK q \in {<<Prompt>>, <<Prompt>> \o p} :
            given' = [system |-> q, contents |-> K \o <<New>>]
    BY <1>7
  <1>9. given'.system = q /\ given'.contents = K \o <<New>>
    BY <1>8
  <1>10. q \in Seq(Item) /\ Len(q) > 0 /\ \A n \in DOMAIN q : q[n] = Prompt
    BY <1>6
  <1>11. K \o <<New>> \in Seq(Item)
    BY <1>2, <1>6
  <1>12. given' \in [system: Seq(Item), contents: Seq(Item)]
    BY <1>8, <1>10, <1>11
  <1> QED BY <1>9, <1>10, <1>12 DEF K

\* Every step of _build_request and of a provider keeps the request in order.
LEMMA RequestStep ==
    ASSUME Inv, Inv', RequestInv, [Next]_vars
    PROVE  RequestInv'
  <1>1. KeptItems \in Seq(SpokenItem) /\ New \in SpokenItem /\ Prompt \in Item
    BY KeptItemsType DEF Inv
  <1>2. SpokenItem \subseteq Item
    BY DEF SpokenItem
  <1>3. /\ stage' \in {"idle", "prune", "build", "convert", "sent"}
        /\ first' \in 1..(Len(history') + 1)
    BY DEF Inv
  <1>4. ASSUME UNCHANGED <<history, first>>
        PROVE  KeptItems' = KeptItems
    BY <1>4 DEF KeptItems, Kept
  <1>5. CASE (\E h \in Histories : Start(h)) \/ PopOldest
    <2>1. /\ history' \in Histories \cup {<<>>} /\ stage' = "prune"
          /\ UNCHANGED <<messages, given>>
      BY <1>5 DEF Start, PopOldest, RequestInv, TypeOK
    <2> QED BY <1>3, <2>1 DEF RequestInv, TypeOK, ProviderSeesConversation
  <1>6. CASE Build \/ BuildTitle
    <2>1. UNCHANGED <<history, first, given>> /\ stage' = "convert"
      BY <1>6 DEF Build, BuildTitle
    <2>2. PICK p \in {<<>>, <<Prompt>>} : messages' = p \o (KeptItems \o <<New>>)
      <3>1. CASE Build
        <4>1. KeptItems \in Seq(Item) /\ <<Prompt>> \in Seq(Item) /\ <<New>> \in Seq(Item)
          BY <1>1, <1>2
        <4>2. (<<Prompt>> \o KeptItems) \o <<New>> = <<Prompt>> \o (KeptItems \o <<New>>)
          BY <4>1
        <4> QED BY <3>1, <4>2 DEF Build
      <3>2. CASE BuildTitle
        <4>1. history = <<>> /\ first = 1
          BY <3>2 DEF BuildTitle, Inv
        <4>2. Len(KeptItems) = 0
          BY <4>1 DEF KeptItems
        <4>3. KeptItems = <<>>
          BY <1>1, <4>2
        <4>4. <<New>> = <<>> \o (<<>> \o <<New>>)
          OBVIOUS
        <4> QED BY <3>2, <4>3, <4>4 DEF BuildTitle
      <3> QED BY <1>6, <3>1, <3>2
    <2>3. messages' \in Seq(Item)
      <3>1. KeptItems \o <<New>> \in Seq(SpokenItem)
        BY <1>1
      <3> QED BY <2>2, <3>1, PromptThenSpoken
    <2> QED BY <1>3, <1>4, <2>1, <2>2, <2>3 DEF RequestInv, TypeOK, ProviderSeesConversation
  <1>7. ASSUME NEW v \in Provider, Convert(v)
        PROVE  RequestInv'
    <2>1. UNCHANGED <<history, first, messages>> /\ stage = "convert"
      BY <1>7 DEF Convert
    <2> QED BY <1>3, <1>4, <1>7, <2>1, ConvertGives
            DEF RequestInv, TypeOK, ProviderSeesConversation
  <1>8. CASE UNCHANGED vars
    <2>1. UNCHANGED <<stage, history, first, messages, given>>
      BY <1>8 DEF vars
    <2> QED BY <1>4, <2>1 DEF RequestInv, TypeOK, ProviderSeesConversation
  <1> QED BY <1>5, <1>6, <1>7, <1>8 DEF Next, Sent

LEMMA RequestInvariance == Spec => []RequestInv
  <1>1. Init => RequestInv
    <2> SUFFICES ASSUME Init PROVE RequestInv
      OBVIOUS
    <2>1. <<>> \in Seq(Item) /\ Len(<<>>) = 0
      OBVIOUS
    <2> QED BY <2>1 DEF Init, RequestInv, TypeOK, ProviderSeesConversation, Nothing
  <1>2. Inv /\ Inv' /\ RequestInv /\ [Next]_vars => RequestInv'
    BY RequestStep
  <1> QED BY <1>1, <1>2, Invariance, PTL DEF Spec

\* The window and the request are what they are meant to be in every state: a
\* kept place is in the history, a request is made of its items.
THEOREM TypeCorrect == Spec => []TypeOK
  <1>1. RequestInv => TypeOK
    BY DEF RequestInv
  <1> QED BY <1>1, RequestInvariance, PTL

\* Whatever the history and the limits, both providers are given every kept
\* message once and in order with the new one last, and the prompt as
\* instruction (build_context and the two _convert_messages).
THEOREM GivenInOrder == Spec => []ProviderSeesConversation
  <1>1. RequestInv => ProviderSeesConversation
    BY DEF RequestInv
  <1> QED BY <1>1, RequestInvariance, PTL

============================================================================
