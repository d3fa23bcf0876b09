---------------------------- MODULE RateLimiter ----------------------------
(***************************************************************************)
(* The rate limiting middleware of JULIBOT: an in-memory store of counters *)
(* shared by every request of the process.  dispatch does not await before *)
(* it has decided, so a request is one step: it may sweep old entries, it  *)
(* counts on the entry of its endpoint, if the path has one, and, when     *)
(* that lets it pass, on the entry of its address.                         *)
(***************************************************************************)
EXTENDS Naturals, FiniteSets

CONSTANTS
    Pattern,     \* the keys of endpoint_limits
    ByUser,      \* patterns keyed by get_user_id_or_ip, the others by address
    User, Ip,    \* ids in valid tokens, and addresses as get_client_ip sees them
    NoUser,      \* a request without a valid token
    Limit,       \* requests per window, by pattern and for "global"
    Window,      \* window_seconds, in ticks of the clock
    Second,      \* ticks in a second
    Interval,    \* _cleanup_interval, in ticks
    Retention,   \* age after which cleanup removes an entry, in ticks
    MaxExcess,   \* bound: requests refused in a row on one entry
    MaxTime      \* bound: the clock stops here

ASSUME KeyAssumption ==
    /\ ByUser \subseteq Pattern /\ "global" \notin Pattern
    /\ NoUser \notin User /\ User \cap Ip = {}
    /\ IsFiniteSet(Pattern) /\ IsFiniteSet(User) /\ IsFiniteSet(Ip)
ASSUME LimitAssumption == Limit \in [Pattern \cup {"global"} -> Nat \ {0}]
ASSUME TimeAssumption ==
    /\ Window \in Nat \ {0} /\ Second \in Nat \ {0}
    /\ Interval \in Nat /\ Retention \in Nat /\ Retention >= Window
ASSUME BoundAssumption == MaxExcess \in Nat \ {0} /\ MaxTime \in Nat

VARIABLES
    store,        \* _store; an entry that is not there has count 0
    lastCleanup,  \* _last_cleanup
    now,          \* time.time()
    passed,       \* history: checks passed in the last Window ticks
    refused       \* history: the last refusal on each key, for a while

vars == <<store, lastCleanup, now, passed, refused>>

Key   == (Pattern \X (User \cup Ip)) \cup ({"global"} \X Ip)
Entry == [count: Nat, start: Nat]
Pass  == [key: Key, start: Nat, nth: Nat, at: Nat]

\* until: when Retry-After is over, and the second that int() cuts off.
Refusal   == [at: Nat, until: Nat]
Absent    == [count |-> 0, start |-> 0]
NoRefusal == [at |-> 0, until |-> 0]

TypeOK ==
    /\ store \in [Key -> Entry]
    /\ now \in Nat /\ lastCleanup \in 0..now
    /\ passed \subseteq Pass
    /\ refused \in [Key -> Refusal]

Init ==
    /\ store = [k \in Key |-> Absent]
    /\ lastCleanup = 0 /\ now = 0
    /\ passed = {} /\ refused = [k \in Key |-> NoRefusal]

----------------------------------------------------------------------------
(* InMemoryRateLimiter.                                                    *)

CleanupDue == now > lastCleanup + Interval

\* Variant of LastCleanup: every request moves it.
LastCleanupAlways == now

LastCleanup == IF CleanupDue THEN now ELSE lastCleanup

Stale(e) == e.start + Retention < now

\* The store after _cleanup_if_needed.
Cleaned == [k \in Key |-> IF CleanupDue /\ Stale(store[k]) THEN Absent ELSE store[k]]

\* Variants of Counted: every request moves the window; the count goes down.
CountedMoving(e) == IF now >= e.start + Window THEN [count |-> 1, start |-> now]
                    ELSE [count |-> e.count + 1, start |-> now]
CountedDown(e) == [count |-> e.count - 1, start |-> now]

\* The window restarts at its first request after its end.
Counted(e) ==
    IF e.count = 0 \/ now >= e.start + Window THEN [count |-> 1, start |-> now]
    ELSE [e EXCEPT !.count = @ + 1]

\* Variant of Over: the request after the last one allowed passes.
OverLate(k, e) == e.count > Limit[k[1]] + 1

Over(k, e) == e.count > Limit[k[1]]

\* Variant of RetryAfter: in windows, as if it were minutes.
RetryAfterWindows(e) == (Window - (now - e.start)) \div Window

\* max(1, int(window_seconds - (now - window_start)))
RetryAfter(e) ==
    IF now + Second > e.start + Window THEN 1
    ELSE (Window - (now - e.start)) \div Second

----------------------------------------------------------------------------
(* dispatch.                                                               *)

\* A user is counted by id wherever the token is valid, signed out or not.
EndpointKey(p, u, ip) == <<p, IF p \in ByUser /\ u # NoUser THEN u ELSE ip>>
GlobalKey(ip) == <<"global", ip>>

Checked(k) == Counted(Cleaned[k])
Refuses(k) == Over(k, Checked(k))

\* Bound: no entry counts further than this.
Room(k) == store[k].count < Limit[k[1]] + MaxExcess

\* check_rate_limit on the keys K, of which it lets those in K \ R pass.
Check(K, R) ==
    /\ \A k \in K : Room(k)
    /\ lastCleanup' = LastCleanup
    /\ store' = [k \in Key |-> IF k \in K THEN Checked(k) ELSE Cleaned[k]]
    /\ passed' = passed \cup
        {[key |-> k, start |-> Checked(k).start, nth |-> Checked(k).count, at |-> now] :
            k \in K \ R}
    /\ refused' = [k \in Key |-> IF k \in R
            THEN [at |-> now, until |-> now + (RetryAfter(Checked(k)) + 1) * Second]
            ELSE refused[k]]
    /\ UNCHANGED now

\* 429 from the endpoint's limit: the global entry is not counted.
RefuseEndpoint(p, u, ip) ==
    /\ Refuses(EndpointKey(p, u, ip))
    /\ Check({EndpointKey(p, u, ip)}, {EndpointKey(p, u, ip)})

\* 429 from the global limit: it has been counted on the endpoint all the same.
RefuseGlobal(p, u, ip) ==
    /\ ~Refuses(EndpointKey(p, u, ip)) /\ Refuses(GlobalKey(ip))
    /\ Check({EndpointKey(p, u, ip), GlobalKey(ip)}, {GlobalKey(ip)})

Admit(p, u, ip) ==
    /\ ~Refuses(EndpointKey(p, u, ip)) /\ ~Refuses(GlobalKey(ip))
    /\ Check({EndpointKey(p, u, ip), GlobalKey(ip)}, {})

\* Any other path meets the global limit only.
Elsewhere(ip) ==
    Check({GlobalKey(ip)}, IF Refuses(GlobalKey(ip)) THEN {GlobalKey(ip)} ELSE {})

Tick ==
    /\ now < MaxTime
    /\ now' = now + 1
    /\ passed' = {g \in passed : g.at + Window > now'}
    /\ refused' = [k \in Key |->
            IF refused[k].until + Second < now' THEN NoRefusal ELSE refused[k]]
    /\ UNCHANGED <<store, lastCleanup>>

Next ==
    \/ \E p \in Pattern, u \in User \cup {NoUser}, ip \in Ip :
        RefuseEndpoint(p, u, ip) \/ RefuseGlobal(p, u, ip) \/ Admit(p, u, ip)
    \/ \E ip \in Ip : Elsewhere(ip)
    \/ Tick

Spec == Init /\ [][Next]_vars

----------------------------------------------------------------------------
(* Properties.                                                             *)

PassedOn(k) == {g \in passed : g.key = k}

\* The window is fixed, not "sliding": two bursts around its end may both
\* pass, but no more than twice the limit in any Window ticks, whatever
\* cleanup removes in between.
TwiceTheLimit == \A k \in Key : Cardinality(PassedOn(k)) <= 2 * Limit[k[1]]

\* A key is refused only when as many of its requests as the limit allows have
\* passed in the last Window ticks: refused requests do not hold it back.
RefusedOnlyIfServed ==
    \A k \in Key : refused[k] # NoRefusal /\ refused[k].at = now =>
        Cardinality(PassedOn(k)) >= Limit[k[1]]

\* A client that waits for Retry-After, and for the second int() cuts off it,
\* is refused again only if others have used up a whole limit meanwhile.
WaitingHelps ==
    [][\A k \in Key :
        refused'[k].at = now /\ refused[k] # NoRefusal /\ now >= refused[k].until =>
            Cardinality({g \in PassedOn(k) : g.at > refused[k].at}) >= Limit[k[1]]]_vars

\* "Periodically clean up old entries to prevent memory leaks": after a request
\* the store holds no entry older than the retention time and one interval.
OldEntriesGo ==
    [][store' # store => \A k \in Key :
        store'[k].count > 0 => now <= store'[k].start + Retention + Interval]_vars

============================================================================
