------------------------- MODULE RateLimiter_proofs -------------------------
(***************************************************************************)
(* Theorems about RateLimiter, for any limits, window, cleanup interval,   *)
(* users and addresses.                                                    *)
(***************************************************************************)
EXTENDS RateLimiter, FunctionTheorems, FiniteSetTheorems, TLAPS

----------------------------------------------------------------------------
(* The inductive invariant.  Each part is what relates the history of      *)
(* checks to the one entry the store keeps per key: a passed check belongs *)
(* to the entry's window or to one that ended before it began.             *)

\* An entry and a key's history agree; e is the entry of k, cleaned or not.
PassesFit(k, e) == \A g \in PassedOn(k) :
    \/ g.start = e.start /\ g.nth <= e.count
    \/ e.count > 0 /\ g.start + Window <= e.start
    \/ e.count = 0 /\ g.start + Window <= now

Served(k, e) == e.count > 0 /\ now < e.start + Window =>
    \A n \in 1..Limit[k[1]] : n <= e.count =>
        \E g \in PassedOn(k) : g.start = e.start /\ g.nth = n

RefusalFits(k, e) == refused[k] # NoRefusal =>
    \/ e.count > 0 /\ refused[k].at < e.start
    \/ e.count = 0 /\ refused[k].at < now
    \/ e.count > 0 /\ refused[k].at < e.start + Window /\ e.start + Window <= refused[k].until

Describes(k, e) ==
    e.start <= now /\ PassesFit(k, e) /\ Served(k, e) /\ RefusalFits(k, e)

GoodPass(g) ==
    /\ g.at <= now /\ now < g.at + Window
    /\ g.start <= g.at /\ g.at < g.start + Window
    /\ 1 <= g.nth /\ g.nth <= Limit[g.key[1]]

\* Two windows of a key do not overlap, and within one each number passes once.
Apart(g, h) ==
    \/ g.start = h.start /\ (g.nth = h.nth => g = h)
    \/ g.start + Window <= h.start
    \/ h.start + Window <= g.start

GoodRefusal(k) == refused[k] # NoRefusal =>
    /\ refused[k].at <= now /\ refused[k].at < refused[k].until
    /\ refused[k].at = now =>
        store[k].count > Limit[k[1]] /\ now < store[k].start + Window

Inv ==
    /\ TypeOK
    /\ \A g \in passed : GoodPass(g)
    /\ \A g, h \in passed : g.key = h.key => Apart(g, h)
    /\ \A k \in Key : Describes(k, store[k]) /\ GoodRefusal(k)
    /\ \A k \in Key : store[k].count > 0 => store[k].start + Retention >= lastCleanup

----------------------------------------------------------------------------
(* Every step but a tick is a check of some keys.                          *)

Refusing(K) == {k \in K : Refuses(k)}

LEMMA KeysAreKeys ==
    /\ \A p \in Pattern, u \in User \cup {NoUser}, ip \in Ip :
        EndpointKey(p, u, ip) \in Key /\ EndpointKey(p, u, ip)[1] # "global"
    /\ \A ip \in Ip : GlobalKey(ip) \in Key /\ GlobalKey(ip)[1] = "global"
    /\ \A k \in Key : Limit[k[1]] \in Nat \ {0}
  <1>1. \A p \in Pattern, u \in User \cup {NoUser}, ip \in Ip :
            EndpointKey(p, u, ip) \in Key /\ EndpointKey(p, u, ip)[1] # "global"
    BY KeyAssumption DEF EndpointKey, Key
  <1>2. \A ip \in Ip : GlobalKey(ip) \in Key /\ GlobalKey(ip)[1] = "global"
    BY DEF GlobalKey, Key
  <1>3. \A k \in Key : k[1] \in Pattern \cup {"global"}
    BY DEF Key
  <1> QED BY <1>1, <1>2, <1>3, LimitAssumption

\* Every request is one check of some keys.
LEMMA StepIsCheck ==
    ASSUME Next
    PROVE  Tick \/ \E K \in SUBSET Key : Check(K, Refusing(K))
  <1>1. ASSUME NEW p \in Pattern, NEW u \in User \cup {NoUser}, NEW ip \in Ip,
               RefuseEndpoint(p, u, ip) \/ RefuseGlobal(p, u, ip) \/ Admit(p, u, ip)
        PROVE  \E K \in SUBSET Key : Check(K, Refusing(K))
    <2> DEFINE e == EndpointKey(p, u, ip)
               g == GlobalKey(ip)
    <2>1. e \in Key /\ g \in Key /\ e # g
      BY KeysAreKeys
    <2>2. CASE RefuseEndpoint(p, u, ip)
      <3>1. Refusing({e}) = {e}
        BY <2>2 DEF RefuseEndpoint, Refusing
      <3>2. Check({e}, Refusing({e}))
        BY <2>2, <3>1 DEF RefuseEndpoint
      <3> HIDE DEF e
      <3> QED BY <2>1, <3>2
    <2>3. CASE RefuseGlobal(p, u, ip)
      <3>1. Refusing({e, g}) = {g}
        BY <2>1, <2>3 DEF RefuseGlobal, Refusing
      <3>2. Check({e, g}, Refusing({e, g}))
        BY <2>3, <3>1 DEF RefuseGlobal
      <3> HIDE DEF e, g
      <3> QED BY <2>1, <3>2
    <2>4. CASE Admit(p, u, ip)
      <3>1. Refusing({e, g}) = {}
        BY <2>4 DEF Admit, Refusing
      <3>2. Check({e, g}, Refusing({e, g}))
        BY <2>4, <3>1 DEF Admit
      <3> HIDE DEF e, g
      <3> QED BY <2>1, <3>2
    <2> QED BY <1>1, <2>2, <2>3, <2>4
  <1>2. ASSUME NEW ip \in Ip, Elsewhere(ip)
        PROVE  \E K \in SUBSET Key : Check(K, Refusing(K))
    <2> DEFINE g == GlobalKey(ip)
    <2>1. g \in Key
      BY KeysAreKeys
    <2>2. Refusing({g}) = IF Refuses(g) THEN {g} ELSE {}
      BY DEF Refusing
    <2>3. Check({g}, Refusing({g}))
      BY <1>2, <2>2 DEF Elsewhere
    <2> HIDE DEF g
    <2> QED BY <2>1, <2>3
  <1> QED BY <1>1, <1>2 DEF Next

----------------------------------------------------------------------------
(* What cleanup and counting make of an entry.                             *)

\* The cleanup takes no entry whose window is still open.
LEMMA CleanedFits ==
    ASSUME Inv, NEW k \in Key
    PROVE  /\ Cleaned[k] \in Entry /\ Describes(k, Cleaned[k])
           /\ now < store[k].start + Window => Cleaned[k] = store[k]
           /\ Cleaned[k].count > 0 =>
                Cleaned[k] = store[k] /\ Cleaned[k].start + Retention >= LastCleanup
  <1>1. /\ store[k] \in Entry /\ store[k].count \in Nat /\ store[k].start \in Nat
        /\ now \in Nat /\ lastCleanup \in Nat /\ lastCleanup <= now
        /\ refused[k] \in Refusal /\ refused[k].at \in Nat /\ refused[k].until \in Nat
        /\ Describes(k, store[k])
        /\ store[k].count > 0 => store[k].start + Retention >= lastCleanup
    BY DEF Inv, TypeOK, Entry, Refusal
  <1>2. Cleaned[k] = IF CleanupDue /\ Stale(store[k]) THEN Absent ELSE store[k]
    BY DEF Cleaned
  <1>3. CASE CleanupDue /\ Stale(store[k])
    <2>1. Cleaned[k] = Absent /\ Absent \in Entry /\ Absent.count = 0 /\ Absent.start = 0
      BY <1>2, <1>3 DEF Absent, Entry
    <2>2. store[k].start + Window < now
      BY <1>1, <1>3, TimeAssumption DEF Stale
    <2>3. PassesFit(k, Absent)
      <3> SUFFICES ASSUME NEW g \in PassedOn(k) PROVE g.start + Window <= now
        BY <2>1 DEF PassesFit
      <3>1. g.start \in Nat
        BY DEF PassedOn, Inv, TypeOK, Pass
      <3> QED BY <1>1, <2>2, <3>1, TimeAssumption DEF Describes, PassesFit
    <2>4. RefusalFits(k, Absent)
      BY <1>1, <2>1, <2>2, TimeAssumption DEF Describes, RefusalFits
    <2>5. Served(k, Absent)
      BY <2>1 DEF Served
    <2> QED BY <1>1, <2>1, <2>2, <2>3, <2>4, <2>5, TimeAssumption DEF Describes
  <1>4. CASE ~(CleanupDue /\ Stale(store[k]))
    <2>1. Cleaned[k] = store[k]
      BY <1>2, <1>4
    <2>2. store[k].count > 0 => store[k].start + Retention >= LastCleanup
      BY <1>1, <1>4, TimeAssumption DEF LastCleanup, Stale, CleanupDue
    <2> QED BY <1>1, <2>1, <2>2
  <1> QED BY <1>3, <1>4

\* The entry a check of k counts on: all that passed before belongs to its
\* window, with a lower number, or to one that has ended.
LEMMA CountedFits ==
    ASSUME Inv, NEW k \in Key
    PROVE  LET e == Checked(k) IN
           /\ e \in Entry /\ e.count > 0
           /\ e.start <= now /\ now < e.start + Window
           /\ \A g \in PassedOn(k) :
                (g.start = e.start /\ g.nth < e.count) \/ g.start + Window <= e.start
           /\ \A n \in 1..Limit[k[1]] : n < e.count =>
                \E g \in PassedOn(k) : g.start = e.start /\ g.nth = n
           /\ refused[k] # NoRefusal =>
                \/ refused[k].at < e.start
                \/ /\ refused[k].at < e.start + Window
                   /\ e.start + Window <= refused[k].until
           /\ now < store[k].start + Window /\ store[k].count > 0 =>
                e = [store[k] EXCEPT !.count = @ + 1]
           /\ e.start + Retention >= LastCleanup
  <1> DEFINE c == Cleaned[k]
             e == Checked(k)
  <1>1. /\ c \in Entry /\ c.count \in Nat /\ c.start \in Nat /\ now \in Nat
        /\ c = [count |-> c.count, start |-> c.start]
        /\ lastCleanup \in Nat /\ lastCleanup <= now
        /\ refused[k].at \in Nat /\ refused[k].until \in Nat
        /\ Limit[k[1]] \in Nat /\ Window \in Nat /\ Window > 0 /\ Retention \in Nat
    BY CleanedFits, KeysAreKeys, TimeAssumption DEF Inv, TypeOK, Entry, Refusal
  <1>2. Describes(k, c) /\ (now < store[k].start + Window => c = store[k])
        /\ (c.count > 0 => c = store[k] /\ c.start + Retention >= LastCleanup)
    BY CleanedFits
  <1>3. e = IF c.count = 0 \/ now >= c.start + Window THEN [count |-> 1, start |-> now]
            ELSE [c EXCEPT !.count = @ + 1]
    BY DEF Checked, Counted
  <1>4. LastCleanup <= now /\ LastCleanup \in Nat
    BY <1>1 DEF LastCleanup
  <1>5. \A g \in PassedOn(k) : 
            g.start \in Nat /\ g.nth \in Nat /\ g.start <= now /\ g.nth >= 1
    BY DEF PassedOn, Inv, TypeOK, Pass, GoodPass
  <1>6. GoodRefusal(k) /\ store[k].count \in Nat /\ store[k].start \in Nat
    BY DEF Inv, TypeOK, Entry
  <1> HIDE DEF c, e
  <1>7. CASE c.count = 0 \/ now >= c.start + Window
    <2>1. e \in Entry /\ e.count = 1 /\ e.start = now
      BY <1>1, <1>3, <1>7 DEF Entry
    <2>2. ASSUME NEW g \in PassedOn(k) PROVE g.start + Window <= e.start
      BY <1>1, <1>2, <1>5, <1>7, <2>1 DEF Describes, PassesFit
    <2>3. refused[k] # NoRefusal => refused[k].at < e.start \/
            (refused[k].at < e.start + Window /\ e.start + Window <= refused[k].until)
      BY <1>1, <1>2, <1>7, <2>1 DEF Describes, RefusalFits
    <2>4. ~(now < store[k].start + Window /\ store[k].count > 0)
      BY <1>1, <1>2, <1>6, <1>7
    <2> QED BY <1>1, <1>4, <2>1, <2>2, <2>3, <2>4 DEF e
  <1>8. CASE ~(c.count = 0 \/ now >= c.start + Window)
    <2>1. /\ e \in Entry /\ e.count = c.count + 1 /\ e.start = c.start /\ c = store[k]
          /\ e = [store[k] EXCEPT !.count = @ + 1]
      BY <1>1, <1>2, <1>3, <1>8 DEF Entry
    <2>2. c.count > 0 /\ now < c.start + Window /\ c.start <= now
      BY <1>1, <1>2, <1>8 DEF Describes
    <2>3. ASSUME NEW g \in PassedOn(k)
          PROVE  (g.start = e.start /\ g.nth < e.count) \/ g.start + Window <= e.start
      BY <1>1, <1>2, <1>5, <2>1, <2>2 DEF Describes, PassesFit
    <2>4. \A n \in 1..Limit[k[1]] : n < e.count =>
            \E g \in PassedOn(k) : g.start = e.start /\ g.nth = n
      BY <1>1, <1>2, <2>1, <2>2 DEF Describes, Served
    <2>5. refused[k] # NoRefusal => refused[k].at < e.start \/
            (refused[k].at < e.start + Window /\ e.start + Window <= refused[k].until)
      BY <1>1, <1>2, <2>1, <2>2 DEF Describes, RefusalFits
    <2> QED BY <1>1, <1>2, <2>1, <2>2, <2>3, <2>4, <2>5 DEF e
  <1> QED BY <1>7, <1>8

\* Retry-After and the second int() cuts off reach the end of the window.
LEMMA RetryCoversWindow ==
    ASSUME NEW e \in Entry, now \in Nat, e.start <= now, now < e.start + Window
    PROVE  LET until == now + (RetryAfter(e) + 1) * Second IN
           until \in Nat /\ now < until /\ e.start + Window <= until
  <1> DEFINE x == Window - (now - e.start)
  <1>1. x \in Nat /\ e.start \in Nat /\ Window \in Nat /\ Second \in Nat \ {0}
    BY TimeAssumption DEF Entry
  <1>2. CASE now + Second > e.start + Window
    <2>1. (RetryAfter(e) + 1) * Second = Second + Second
      BY <1>1, <1>2 DEF RetryAfter
    <2> QED BY <1>1, <1>2, <2>1
  <1>3. CASE ~(now + Second > e.start + Window)
    <2>1. RetryAfter(e) = x \div Second
      BY <1>3 DEF RetryAfter
    <2> HIDE DEF x
    <2>2. \A y \in Nat, s \in Nat \ {0} : y \div s \in Nat /\ (y \div s + 1) * s > y
                                        /\ (y \div s + 1) * s \in Nat
      BY SMT
    <2>3. (RetryAfter(e) + 1) * Second > x /\ (RetryAfter(e) + 1) * Second \in Nat
      BY <1>1, <2>1, <2>2
    <2> QED BY <1>1, <2>3 DEF x
  <1> QED BY <1>2, <1>3

----------------------------------------------------------------------------
(* A check keeps the invariant.                                            *)

Passing(k) ==
    [key |-> k, start |-> Checked(k).start, nth |-> Checked(k).count, at |-> now]

\* What a check of some keys does to each key.
LEMMA CheckEffect ==
    ASSUME Inv, NEW K \in SUBSET Key, Check(K, Refusing(K))
    PROVE  /\ now' = now /\ lastCleanup' = LastCleanup
           /\ \A k \in Key : store'[k] = IF k \in K THEN Checked(k) ELSE Cleaned[k]
           /\ \A k \in Key : refused'[k] =
                IF k \in K /\ Refuses(k)
                THEN [at |-> now, until |-> now + (RetryAfter(Checked(k)) + 1) * Second]
                ELSE refused[k]
           /\ \A g \in passed' : g \in passed \/
                \E k \in K : ~Refuses(k) /\ g = Passing(k)
           /\ \A k \in Key : PassedOn(k)' = PassedOn(k) \cup
                (IF k \in K /\ ~Refuses(k) THEN {Passing(k)} ELSE {})
           /\ TypeOK'
  <1>1. /\ now' = now /\ lastCleanup' = LastCleanup
        /\ store' = [k \in Key |-> IF k \in K THEN Checked(k) ELSE Cleaned[k]]
        /\ passed' = passed \cup {Passing(k) : k \in K \ Refusing(K)}
        /\ refused' = [k \in Key |-> IF k \in Refusing(K)
                THEN [at |-> now, until |-> now + (RetryAfter(Checked(k)) + 1) * Second]
                ELSE refused[k]]
    BY DEF Check, Passing
  <1>2. \A g \in passed' : g \in passed \/ \E k \in K : ~Refuses(k) /\ g = Passing(k)
    BY <1>1 DEF Refusing
  <1>3. \A k \in Key : Passing(k).key = k
    BY DEF Passing
  <1>4. ASSUME NEW k \in Key
        PROVE  PassedOn(k)' = PassedOn(k) \cup
                (IF k \in K /\ ~Refuses(k) THEN {Passing(k)} ELSE {})
    <2>1. {Passing(j) : j \in K \ Refusing(K)} =
            {g \in passed' : \E j \in K : ~Refuses(j) /\ g = Passing(j)}
      BY <1>1 DEF Refusing
    <2> QED BY <1>1, <1>3, <2>1 DEF PassedOn, Refusing
  <1>5. TypeOK'
    <2>1. now \in Nat /\ lastCleanup \in 0..now /\ passed \subseteq Pass
          /\ refused \in [Key -> Refusal]
      BY DEF Inv, TypeOK
    <2>2. LastCleanup \in 0..now
      BY <2>1 DEF LastCleanup
    <2>3. \A k \in Key : /\ Cleaned[k] \in Entry /\ Checked(k) \in Entry
                         /\ Checked(k).start <= now /\ now < Checked(k).start + Window
      BY CleanedFits, CountedFits
    <2>4. \A k \in Key : Passing(k) \in Pass
      BY <2>1, <2>3 DEF Passing, Pass, Entry
    <2>5. \A k \in Key :
            [at |-> now, until |-> now + (RetryAfter(Checked(k)) + 1) * Second] \in Refusal
      BY <2>1, <2>3, RetryCoversWindow DEF Refusal
    <2>6. store' \in [Key -> Entry]
      BY <1>1, <2>3
    <2>7. refused' \in [Key -> Refusal]
      BY <1>1, <2>1, <2>5 DEF Refusing
    <2>8. passed' \subseteq Pass
      BY <1>2, <2>1, <2>4
    <2> QED BY <1>1, <2>1, <2>2, <2>6, <2>7, <2>8 DEF TypeOK
  <1> QED BY <1>1, <1>2, <1>4, <1>5 DEF Refusing

\* A check adds passes that fit the windows of those before.
LEMMA CheckKeepsPasses ==
    ASSUME Inv, NEW K \in SUBSET Key, Check(K, Refusing(K))
    PROVE  /\ \A g \in passed' : GoodPass(g)'
           /\ \A g, h \in passed' : g.key = h.key => Apart(g, h)
  <1>1. \A g \in passed' : g \in passed \/ \E k \in K : ~Refuses(k) /\ g = Passing(k)
    BY CheckEffect
  <1>2. now' = now /\ now \in Nat /\ Window \in Nat \ {0}
    BY CheckEffect, TimeAssumption DEF Inv, TypeOK
  <1>3. ASSUME NEW k \in Key, ~Refuses(k) PROVE GoodPass(Passing(k))
    <2>1. Checked(k) \in Entry /\ Checked(k).count > 0 /\ Checked(k).start <= now
          /\ now < Checked(k).start + Window
      BY CountedFits
    <2>2. Checked(k).count <= Limit[k[1]]
      BY <1>3, <2>1, KeysAreKeys DEF Refuses, Over, Entry
    <2> QED BY <1>2, <2>1, <2>2 DEF GoodPass, Passing, Entry
  <1>4. ASSUME NEW g \in passed' PROVE GoodPass(g)'
    <2>1. GoodPass(g)
      BY <1>1, <1>3 DEF Inv
    <2> QED BY <1>2, <2>1 DEF GoodPass
  <1>5. ASSUME NEW k \in Key, NEW g \in passed, g.key = k
        PROVE  Apart(g, Passing(k)) /\ Apart(Passing(k), g)
    <2>1. g \in PassedOn(k)
      BY <1>5 DEF PassedOn
    <2>2. (g.start = Checked(k).start /\ g.nth < Checked(k).count)
          \/ g.start + Window <= Checked(k).start
      BY <2>1, CountedFits
    <2>3. Passing(k).start = Checked(k).start /\ Passing(k).nth = Checked(k).count
      BY DEF Passing
    <2>4. g.nth \in Nat /\ Checked(k).count \in Nat
      BY CountedFits DEF Inv, TypeOK, Pass, Entry
    <2> QED BY <2>2, <2>3, <2>4 DEF Apart
  <1>6. \A k \in Key : Passing(k).key = k /\ Apart(Passing(k), Passing(k))
    BY DEF Passing, Apart
  <1> QED BY <1>1, <1>4, <1>5, <1>6 DEF Inv

\* A check leaves entries that describe what has passed, and refusals that fit.
LEMMA CheckKeepsEntries ==
    ASSUME Inv, NEW K \in SUBSET Key, Check(K, Refusing(K)), NEW k \in Key
    PROVE  /\ Describes(k, store[k])' /\ GoodRefusal(k)'
           /\ store'[k].count > 0 => store'[k].start + Retention >= lastCleanup'
  <1>1. /\ now' = now /\ lastCleanup' = LastCleanup
        /\ store'[k] = IF k \in K THEN Checked(k) ELSE Cleaned[k]
        /\ refused'[k] = IF k \in K /\ Refuses(k)
                THEN [at |-> now, until |-> now + (RetryAfter(Checked(k)) + 1) * Second]
                ELSE refused[k]
        /\ PassedOn(k)' = PassedOn(k) \cup
                (IF k \in K /\ ~Refuses(k) THEN {Passing(k)} ELSE {})
    BY CheckEffect
  <1>2. /\ now \in Nat /\ refused[k].at \in Nat /\ refused[k].until \in Nat
        /\ Window \in Nat \ {0} /\ Limit[k[1]] \in Nat \ {0}
        /\ store[k].count \in Nat /\ store[k].start \in Nat
    BY KeysAreKeys, TimeAssumption DEF Inv, TypeOK, Refusal, Entry
  <1>3. GoodRefusal(k) /\ Describes(k, store[k])
    BY DEF Inv
  <1>4. CASE k \notin K
    <2>1. store'[k] = Cleaned[k] /\ refused'[k] = refused[k] /\ PassedOn(k)' = PassedOn(k)
      BY <1>1, <1>4
    <2>2. Describes(k, Cleaned[k])
          /\ (now < store[k].start + Window => Cleaned[k] = store[k])
          /\ (Cleaned[k].count > 0 => Cleaned[k].start + Retention >= LastCleanup)
      BY CleanedFits
    <2>3. Describes(k, store[k])'
      BY <1>1, <2>1, <2>2 DEF Describes, PassesFit, Served, RefusalFits
    <2>4. GoodRefusal(k)'
      BY <1>1, <1>3, <2>1, <2>2 DEF GoodRefusal
    <2> QED BY <1>1, <2>1, <2>2, <2>3, <2>4
  <1>5. CASE k \in K
    <2> DEFINE e == Checked(k)
    <2>1. store'[k] = e
      BY <1>1, <1>5
    <2>2. /\ e \in Entry /\ e.count \in Nat /\ e.start \in Nat /\ e.count > 0
          /\ e.start <= now /\ now < e.start + Window
          /\ e.start + Retention >= LastCleanup
      BY CountedFits DEF Entry
    <2>3. /\ \A g \in PassedOn(k) :
                (g.start = e.start /\ g.nth < e.count) \/ g.start + Window <= e.start
          /\ \A n \in 1..Limit[k[1]] : n < e.count =>
                \E g \in PassedOn(k) : g.start = e.start /\ g.nth = n
      BY CountedFits
    <2>4. /\ refused[k] # NoRefusal => refused[k].at < e.start \/
                (refused[k].at < e.start + Window /\ e.start + Window <= refused[k].until)
          /\ now < store[k].start + Window /\ store[k].count > 0 =>
                e = [store[k] EXCEPT !.count = @ + 1]
      BY CountedFits
    <2>5. Passing(k).start = e.start /\ Passing(k).nth = e.count
      BY DEF Passing
    <2>6. Refuses(k) <=> e.count > Limit[k[1]]
      BY DEF Refuses, Over
    <2>7. \A g \in PassedOn(k) : g.nth \in Nat
      BY DEF PassedOn, Inv, TypeOK, Pass
    <2>8. /\ e.start + Window <= now + (RetryAfter(e) + 1) * Second
          /\ now < now + (RetryAfter(e) + 1) * Second
      BY <1>2, <2>2, RetryCoversWindow
    <2> HIDE DEF e
    <2>9. PassesFit(k, store[k])'
      BY <1>1, <2>1, <2>2, <2>3, <2>5, <2>7 DEF PassesFit
    <2>10. Served(k, store[k])'
      <3> SUFFICES ASSUME NEW n \in 1..Limit[k[1]], n <= e.count
                   PROVE  \E g \in PassedOn(k)' : g.start = e.start /\ g.nth = n
        BY <1>1, <2>1 DEF Served
      <3>1. CASE n < e.count
        BY <1>1, <1>2, <2>2, <2>3, <3>1
      <3>2. CASE n = e.count
        <4>1. ~(e.count > Limit[k[1]])
          BY <1>2, <3>2
        <4>2. Passing(k) \in PassedOn(k)'
          BY <1>1, <1>5, <2>6, <4>1
        <4> QED BY <2>5, <3>2, <4>2
      <3> QED BY <1>2, <2>2, <3>1, <3>2
    <2>11. CASE Refuses(k)
      <3>1. refused'[k] = [at |-> now, until |-> now + (RetryAfter(e) + 1) * Second]
        BY <1>1, <1>5, <2>11 DEF e
      <3>2. refused'[k].at = now /\ e.start + Window <= refused'[k].until
            /\ now < refused'[k].until
        BY <2>8, <3>1
      <3> HIDE <3>1
      <3>3. RefusalFits(k, store[k])'
        BY <2>1, <2>2, <3>2 DEF RefusalFits
      <3>4. GoodRefusal(k)'
        BY <1>1, <1>2, <2>1, <2>2, <2>6, <2>11, <3>2 DEF GoodRefusal
      <3> QED BY <1>1, <2>1, <2>2, <2>9, <2>10, <3>3, <3>4 DEF Describes
    <2>12. CASE ~Refuses(k)
      <3>1. refused'[k] = refused[k]
        BY <1>1, <2>12
      <3>2. RefusalFits(k, store[k])'
        BY <2>1, <2>2, <2>4, <3>1 DEF RefusalFits
      <3>3. GoodRefusal(k)'
        <4> SUFFICES ASSUME refused[k] # NoRefusal, refused[k].at = now
                     PROVE  FALSE
          BY <1>1, <1>3, <3>1 DEF GoodRefusal
        <4>1. store[k].count > Limit[k[1]] /\ now < store[k].start + Window
          BY <1>3 DEF GoodRefusal
        <4>2. store[k].count > 0
          BY <1>2, <4>1
        <4>3. e = [store[k] EXCEPT !.count = @ + 1]
          BY <2>4, <4>1, <4>2
        <4>4. e.count = store[k].count + 1
          BY <1>2, <4>3 DEF Inv, TypeOK, Entry
        <4> QED BY <1>2, <2>6, <2>12, <4>1, <4>4
      <3> QED BY <1>1, <2>1, <2>2, <2>9, <2>10, <3>2, <3>3 DEF Describes
    <2> QED BY <2>11, <2>12
  <1> QED BY <1>4, <1>5

----------------------------------------------------------------------------
(* The clock keeps it too.                                                 *)

LEMMA TickKeepsInv ==
    ASSUME Inv, Tick
    PROVE  Inv'
  <1>1. /\ now' = now + 1 /\ store' = store /\ lastCleanup' = lastCleanup
        /\ passed' = {g \in passed : g.at + Window > now'}
        /\ refused' = [k \in Key |->
                IF refused[k].until + Second < now' THEN NoRefusal ELSE refused[k]]
    BY DEF Tick
  <1>2. /\ now \in Nat /\ lastCleanup \in 0..now /\ Window \in Nat \ {0}
        /\ passed \subseteq Pass /\ refused \in [Key -> Refusal] /\ store \in [Key -> Entry]
        /\ NoRefusal \in Refusal
    BY TimeAssumption DEF Inv, TypeOK, NoRefusal, Refusal
  <1>3. TypeOK'
    <2>1. refused' \in [Key -> Refusal]
      BY <1>1, <1>2
    <2> QED BY <1>1, <1>2, <2>1 DEF TypeOK
  <1>4. ASSUME NEW g \in passed' PROVE GoodPass(g)'
    <2>1. g \in passed /\ GoodPass(g) /\ g.at + Window > now'
      BY <1>1 DEF Inv
    <2>2. g.at \in Nat
      BY <1>2, <2>1 DEF Pass
    <2> QED BY <1>1, <1>2, <2>1, <2>2 DEF GoodPass
  <1>5. \A g, h \in passed' : g.key = h.key => Apart(g, h)
    BY <1>1 DEF Inv
  <1>6. ASSUME NEW k \in Key PROVE Describes(k, store[k])' /\ GoodRefusal(k)'
    <2>1. Describes(k, store[k]) /\ GoodRefusal(k)
      BY DEF Inv
    <2>2. /\ store[k].start \in Nat /\ store[k].count \in Nat
          /\ refused[k].at \in Nat /\ refused[k].until \in Nat
      BY <1>2 DEF Entry, Refusal
    <2>3. PassedOn(k)' = {g \in PassedOn(k) : g.at + Window > now + 1}
      BY <1>1 DEF PassedOn
    <2>4. \A g \in PassedOn(k) : g.at \in Nat /\ g.start \in Nat /\ GoodPass(g)
      BY <1>2 DEF PassedOn, Inv, Pass
    <2>5. PassesFit(k, store[k])'
      <3> SUFFICES ASSUME NEW g \in PassedOn(k)
                   PROVE  \/ g.start = store[k].start /\ g.nth <= store[k].count
                          \/ store[k].count > 0 /\ g.start + Window <= store[k].start
                          \/ store[k].count = 0 /\ g.start + Window <= now + 1
        BY <1>1, <2>3 DEF PassesFit
      <3> QED BY <1>2, <2>1, <2>4 DEF Describes, PassesFit
    <2>6. Served(k, store[k])'
      <3> SUFFICES ASSUME store[k].count > 0, now + 1 < store[k].start + Window,
                          NEW n \in 1..Limit[k[1]], n <= store[k].count
                   PROVE  \E g \in PassedOn(k)' : g.start = store[k].start /\ g.nth = n
        BY <1>1 DEF Served
      <3>1. PICK g \in PassedOn(k) : g.start = store[k].start /\ g.nth = n
        BY <1>2, <2>1, <2>2 DEF Describes, Served
      <3>2. g.at + Window > now + 1
        BY <1>2, <2>2, <2>4, <3>1 DEF GoodPass
      <3> QED BY <2>3, <3>1, <3>2
    <2>7. refused'[k] = NoRefusal \/ refused'[k] = refused[k]
      BY <1>1
    <2>8. RefusalFits(k, store[k])'
      BY <1>1, <1>2, <2>1, <2>2, <2>7 DEF Describes, RefusalFits
    <2>9. GoodRefusal(k)'
      BY <1>1, <1>2, <2>1, <2>2, <2>7 DEF GoodRefusal
    <2>10. store'[k].start <= now'
      BY <1>1, <1>2, <2>1, <2>2 DEF Describes
    <2> QED BY <2>5, <2>6, <2>8, <2>9, <2>10 DEF Describes
  <1>7. \A k \in Key : store'[k].count > 0 => store'[k].start + Retention >= lastCleanup'
    BY <1>1 DEF Inv
  <1> QED BY <1>3, <1>4, <1>5, <1>6, <1>7 DEF Inv

LEMMA InitInv == Init => Inv
  <1> SUFFICES ASSUME Init PROVE Inv
    OBVIOUS
  <1>1. /\ store = [k \in Key |-> Absent] /\ lastCleanup = 0 /\ now = 0 /\ passed = {}
        /\ refused = [k \in Key |-> NoRefusal]
    BY DEF Init
  <1>2. Absent \in Entry /\ Absent.count = 0 /\ Absent.start = 0 /\ NoRefusal \in Refusal
    BY DEF Absent, Entry, NoRefusal, Refusal
  <1>3. TypeOK
    BY <1>1, <1>2 DEF TypeOK
  <1>4. ASSUME NEW k \in Key PROVE Describes(k, store[k]) /\ GoodRefusal(k)
    <2>1. store[k] = Absent /\ refused[k] = NoRefusal /\ PassedOn(k) = {}
      BY <1>1 DEF PassedOn
    <2> QED BY <1>1, <1>2, <2>1
            DEF Describes, PassesFit, Served, RefusalFits, GoodRefusal
  <1> QED BY <1>1, <1>2, <1>3, <1>4 DEF Inv

LEMMA NextInv == Inv /\ [Next]_vars => Inv'
  <1> SUFFICES ASSUME Inv, [Next]_vars PROVE Inv'
    OBVIOUS
  <1>1. CASE Next
    <2>1. CASE Tick
      BY <2>1, TickKeepsInv
    <2>2. CASE \E K \in SUBSET Key : Check(K, Refusing(K))
      <3>1. PICK K \in SUBSET Key : Check(K, Refusing(K))
        BY <2>2
      <3>2. TypeOK'
        BY <3>1, CheckEffect
      <3>3. /\ \A g \in passed' : GoodPass(g)'
            /\ \A g, h \in passed' : g.key = h.key => Apart(g, h)
        BY <3>1, CheckKeepsPasses
      <3>4. ASSUME NEW k \in Key PROVE Describes(k, store[k])' /\ GoodRefusal(k)'
        BY <3>1, CheckKeepsEntries
      <3>5. \A k \in Key : store'[k].count > 0 => store'[k].start + Retention >= lastCleanup'
        BY <3>1, CheckKeepsEntries
      <3> QED BY <3>2, <3>3, <3>4, <3>5 DEF Inv
    <2> QED BY <1>1, <2>1, <2>2, StepIsCheck
  <1>2. CASE UNCHANGED vars
    BY <1>2 DEF vars, Inv, TypeOK, Describes, PassesFit, Served, RefusalFits, PassedOn,
                GoodPass, Apart, GoodRefusal
  <1> QED BY <1>1, <1>2

LEMMA Invariance == Spec => []Inv
  BY InitInv, NextInv, PTL DEF Spec

----------------------------------------------------------------------------
(* The properties.                                                         *)

\* The passes of a key in the last Window ticks: their number and, in an early
\* or a late window, which of its requests they are, tell them apart.
LEMMA PassedAtMostTwice ==
    ASSUME Inv, NEW k \in Key
    PROVE  IsFiniteSet(PassedOn(k)) /\ Cardinality(PassedOn(k)) <= 2 * Limit[k[1]]
  <1> DEFINE L == Limit[k[1]]
             Late(g) == g.start + Window > now
             f == [g \in PassedOn(k) |-> IF Late(g) THEN L + g.nth ELSE g.nth]
  <1>1. /\ L \in Nat \ {0} /\ now \in Nat /\ Window \in Nat \ {0}
        /\ \A g \in PassedOn(k) : /\ g.start \in Nat /\ g.at \in Nat /\ g.nth \in 1..L
                                  /\ g.key = k /\ GoodPass(g) /\ g \in passed
    BY KeysAreKeys, TimeAssumption DEF Inv, TypeOK, Pass, PassedOn, GoodPass
  <1>2. \A g, h \in PassedOn(k) : Apart(g, h)
    BY <1>1 DEF Inv
  <1>3. f \in [PassedOn(k) -> 1..(2 * L)]
    <2> HIDE DEF L
    <2> QED BY <1>1
  <1>4. ASSUME NEW g \in PassedOn(k), NEW h \in PassedOn(k), f[g] = f[h]
        PROVE  g = h
    <2>1. (Late(g) <=> Late(h)) /\ g.nth = h.nth
      <3> HIDE DEF L, Late
      <3> QED BY <1>1, <1>4
    <2>2. ~(g.start + Window <= h.start) /\ ~(h.start + Window <= g.start)
      BY <1>1, <2>1 DEF GoodPass
    <2> QED BY <1>2, <2>1, <2>2 DEF Apart
  <1> HIDE DEF f
  <1>5. f \in Injection(PassedOn(k), 1..(2 * L))
    BY <1>3, <1>4, Fun_IsInj
  <1>6. IsFiniteSet(1..(2 * L)) /\ Cardinality(1..(2 * L)) = 2 * L
    <2> HIDE DEF L
    <2> QED BY <1>1, FS_Interval
  <1>7. IsFiniteSet(PassedOn(k)) /\ Cardinality(PassedOn(k)) <= Cardinality(1..(2 * L))
    BY <1>5, <1>6, FS_Injection
  <1> QED BY <1>6, <1>7

\* A window of which every request within the limit has passed counts a limit.
LEMMA FullWindow ==
    ASSUME Inv, NEW k \in Key, NEW s \in Nat, NEW S \in SUBSET PassedOn(k),
           \A n \in 1..Limit[k[1]] : \E g \in PassedOn(k) : g.start = s /\ g.nth = n,
           \A g \in PassedOn(k) : g.start = s => g \in S
    PROVE  Cardinality(S) >= Limit[k[1]]
  <1> DEFINE L == Limit[k[1]]
             f == [n \in 1..L |-> CHOOSE g \in PassedOn(k) : g.start = s /\ g.nth = n]
  <1>1. \A n \in 1..L : f[n] \in S /\ f[n].nth = n
    OBVIOUS
  <1> HIDE DEF f
  <1>2. f \in [1..L -> S]
    BY <1>1 DEF f
  <1>3. f \in Injection(1..L, S)
    BY <1>1, <1>2, Fun_IsInj
  <1>4. IsFiniteSet(S)
    BY PassedAtMostTwice, FS_Subset
  <1>5. Cardinality(1..L) = L
    BY KeysAreKeys, FS_Interval
  <1>6. Cardinality(1..L) <= Cardinality(S)
    BY <1>3, <1>4, FS_Injection
  <1>7. Cardinality(S) \in Nat /\ L \in Nat
    BY <1>4, KeysAreKeys, FS_CardinalityType
  <1> QED BY <1>5, <1>6, <1>7

\* Every state of the limiter is well typed: entries, clocks, and the history.
THEOREM TypeCorrect == Spec => []TypeOK
  <1>1. Inv => TypeOK
    BY DEF Inv
  <1> QED BY <1>1, Invariance, PTL

\* No key passes more than twice its limit in any Window ticks, wherever the
\* windows fall and whatever cleanup removes.
THEOREM LimitHoldsTwice == Spec => []TwiceTheLimit
  <1>1. Inv => TwiceTheLimit
    BY PassedAtMostTwice DEF TwiceTheLimit
  <1> QED BY <1>1, Invariance, PTL

\* Whoever is refused has had a whole limit of requests served in the last
\* Window ticks: refused requests never hold a key back.
THEOREM RefusalsAreEarned == Spec => []RefusedOnlyIfServed
  <1>1. ASSUME Inv, NEW k \in Key, refused[k] # NoRefusal, refused[k].at = now
        PROVE  Cardinality(PassedOn(k)) >= Limit[k[1]]
    <2>1. /\ store[k].count \in Nat /\ store[k].start \in Nat
          /\ Limit[k[1]] \in Nat \ {0}
      BY <1>1, KeysAreKeys DEF Inv, TypeOK, Entry
    <2>2. store[k].count > Limit[k[1]] /\ now < store[k].start + Window
      BY <1>1 DEF Inv, GoodRefusal
    <2>3. Served(k, store[k])
      BY <1>1 DEF Inv, Describes
    <2>4. \A n \in 1..Limit[k[1]] :
            \E g \in PassedOn(k) : g.start = store[k].start /\ g.nth = n
      BY <2>1, <2>2, <2>3 DEF Served
    <2> QED BY <1>1, <2>1, <2>4, FullWindow
  <1>2. Inv => RefusedOnlyIfServed
    BY <1>1 DEF RefusedOnlyIfServed
  <1> QED BY <1>2, Invariance, PTL

\* Waiting for Retry-After and the second int() cuts off it outlasts the
\* window, so only a whole limit of other requests since can refuse one again.
THEOREM WaitingIsEnough == Spec => WaitingHelps
  <1> DEFINE Helps(k) ==
        refused'[k].at = now /\ refused[k] # NoRefusal /\ now >= refused[k].until =>
            Cardinality({g \in PassedOn(k) : g.at > refused[k].at}) >= Limit[k[1]]
  <1>1. ASSUME Inv, [Next]_vars, NEW k \in Key, refused'[k].at = now,
               refused[k] # NoRefusal, now >= refused[k].until
        PROVE  Cardinality({g \in PassedOn(k) : g.at > refused[k].at}) >= Limit[k[1]]
    <2>1. /\ now \in Nat /\ refused[k].at \in Nat /\ refused[k].until \in Nat
          /\ Limit[k[1]] \in Nat \ {0} /\ Window \in Nat /\ refused[k].at < refused[k].until
      BY <1>1, KeysAreKeys, TimeAssumption DEF Inv, TypeOK, Refusal, GoodRefusal
    <2>2. refused'[k] # refused[k]
      BY <1>1, <2>1
    <2>3. ~Tick
      <3> SUFFICES ASSUME Tick PROVE FALSE
        OBVIOUS
      <3>1. refused'[k] = NoRefusal
        BY <1>1, <2>2 DEF Tick
      <3>2. now = 0
        BY <1>1, <3>1 DEF NoRefusal
      <3> QED BY <1>1, <2>1, <3>2
    <2>4. PICK K \in SUBSET Key : Check(K, Refusing(K))
      BY <1>1, <2>2, <2>3, StepIsCheck DEF vars
    <2>5. k \in K /\ Refuses(k)
      BY <1>1, <2>2, <2>4, CheckEffect
    <2> DEFINE e == Checked(k)
    <2>6. /\ e.start \in Nat /\ e.count \in Nat /\ now < e.start + Window
          /\ e.count > Limit[k[1]]
      BY <1>1, <2>5, CountedFits DEF Entry, Refuses, Over
    <2>7. refused[k].at < e.start \/ e.start + Window <= refused[k].until
      BY <1>1, CountedFits
    <2>8. \A n \in 1..Limit[k[1]] : n < e.count =>
            \E g \in PassedOn(k) : g.start = e.start /\ g.nth = n
      BY <1>1, CountedFits
    <2> HIDE DEF e
    <2>9. refused[k].at < e.start
      BY <1>1, <2>1, <2>6, <2>7
    <2>10. \A g \in PassedOn(k) : g.start = e.start => g.at > refused[k].at
      <3>1. \A g \in PassedOn(k) : g.start <= g.at /\ g.at \in Nat
        BY <1>1 DEF Inv, TypeOK, Pass, PassedOn, GoodPass
      <3> QED BY <2>1, <2>6, <2>9, <3>1
    <2>11. \A n \in 1..Limit[k[1]] : \E g \in PassedOn(k) : g.start = e.start /\ g.nth = n
      BY <2>1, <2>6, <2>8
    <2> QED BY <1>1, <2>6, <2>10, <2>11, FullWindow
  <1>2. Inv /\ [Next]_vars => \A k \in Key : Helps(k)
    BY <1>1
  <1>3. Inv /\ [Next]_vars => [\A k \in Key : Helps(k)]_vars
    BY <1>2
  <1> QED BY <1>3, Invariance, PTL DEF Spec, WaitingHelps

\* After a request no entry in the store is older than the retention time and
\* one cleanup interval.
THEOREM StoreIsSwept == Spec => OldEntriesGo
  <1> DEFINE Swept == store' # store => \A k \in Key :
        store'[k].count > 0 => now <= store'[k].start + Retention + Interval
  <1>1. ASSUME Inv, [Next]_vars, store' # store, NEW k \in Key, store'[k].count > 0
        PROVE  now <= store'[k].start + Retention + Interval
    <2>1. PICK K \in SUBSET Key : Check(K, Refusing(K))
      BY <1>1, StepIsCheck DEF vars, Tick
    <2>2. store'[k] \in Entry /\ store'[k].start + Retention >= LastCleanup
      <3>1. TypeOK' /\ lastCleanup' = LastCleanup
        BY <1>1, <2>1, CheckEffect
      <3>2. store'[k].start + Retention >= lastCleanup'
        BY <1>1, <2>1, CheckKeepsEntries
      <3> QED BY <3>1, <3>2 DEF TypeOK
    <2>3. now \in Nat /\ lastCleanup \in Nat
      BY <1>1 DEF Inv, TypeOK
    <2>4. now <= LastCleanup + Interval /\ LastCleanup \in Nat
      BY <2>3, TimeAssumption DEF LastCleanup, CleanupDue
    <2> QED BY <2>2, <2>3, <2>4, TimeAssumption DEF Entry
  <1>2. Inv /\ [Next]_vars => [Swept]_vars
    BY <1>1
  <1> QED BY <1>2, Invariance, PTL DEF Spec, OldEntriesGo

============================================================================
