-------------------------- MODULE RateLimitsProofs --------------------------
(***************************************************************************)
(* What the three limiters let through, for all windows, maxima and        *)
(* capacities.  Each limiter keeps less than it has let through: a count   *)
(* and a start, tokens and a time, timestamps.  The invariant of each says *)
(* what its store tells of all the ticks there have been, as sums over     *)
(* intervals of them.                                                      *)
(***************************************************************************)
EXTENDS MCOwnerServices, FiniteSums, SequenceTheorems

Ticks == 0..LastTick

Counts == [Ticks -> Nat]

\* What was let through from tick s to tick t.
Within(f, s, t) == SumFunctionOnSet(f, s..t)

\* What was let through since tick s.
Since(f, s) == Within(f, s, LastTick)

\* One more is let through at tick t.
OneMore(f, t, g) == g \in Counts /\ g[t] = f[t] + 1 /\ \A u \in Ticks \ {t} : g[u] = f[u]

\* The sums of the model are these.
LEMMA BetweenIsWithin == \A k, s, t : Limits!Between(k, s, t) = Within(passed[k], s, t)
BY DEF Limits!Between, Within, Limits!SumFunctionOnSet, Limits!FoldFunctionOnSet,
       Limits!MapThenFoldSet, SumFunctionOnSet, FoldFunctionOnSet, MapThenFoldSet

\* Intervals of ticks are finite sets of ticks.
LEMMA Intervals ==
  ASSUME NEW s \in Ticks, NEW t \in Ticks
  PROVE  s..t \in SUBSET Ticks /\ IsFiniteSet(s..t)
BY RateAssumption, FS_Interval DEF Ticks

\* A sum over an interval is a natural number.
LEMMA WithinIsNatural == \A f \in Counts : \A s, t \in Ticks : Within(f, s, t) \in Nat
BY Intervals, SumIsNatural DEF Within, Counts

\* A longer interval has no smaller sum.
LEMMA LongerIsMore ==
  \A f \in Counts : \A s, t, u, v \in Ticks :
    u <= s /\ t <= v => Within(f, s, t) <= Within(f, u, v)
<1> SUFFICES ASSUME NEW f \in Counts, NEW s \in Ticks, NEW t \in Ticks, NEW u \in Ticks,
                    NEW v \in Ticks, u <= s, t <= v
             PROVE  Within(f, s, t) <= Within(f, u, v)
  OBVIOUS
<1>1. s..t \in SUBSET (u..v)
  BY RateAssumption DEF Ticks
<1>2. u..v \in SUBSET Ticks /\ IsFiniteSet(u..v)
  BY Intervals
<1> HIDE DEF Ticks
<1> QED
  BY <1>1, <1>2, SumGrows DEF Within, Counts

\* An interval is cut in two.
LEMMA CutInTwo ==
  \A f \in Counts : \A s, m, t \in Ticks :
    s < m /\ m <= t => Within(f, s, t) = Within(f, s, m - 1) + Within(f, m, t)
<1> SUFFICES ASSUME NEW f \in Counts, NEW s \in Ticks, NEW m \in Ticks, NEW t \in Ticks,
                    s < m, m <= t
             PROVE  Within(f, s, t) = Within(f, s, m - 1) + Within(f, m, t)
  OBVIOUS
<1>1. s..(m - 1) \in SUBSET (s..t) /\ (s..t) \ (s..(m - 1)) = m..t
  BY RateAssumption DEF Ticks
<1>2. s..t \in SUBSET Ticks /\ IsFiniteSet(s..t)
  BY Intervals
<1>3. \A S \in SUBSET Ticks : \A T \in SUBSET S :
        IsFiniteSet(S) =>
          SumFunctionOnSet(f, S) = SumFunctionOnSet(f, T) + SumFunctionOnSet(f, S \ T)
  <2>1. f \in [Ticks -> Nat]
    BY DEF Counts
  <2> SUFFICES ASSUME NEW S \in SUBSET Ticks, NEW T \in SUBSET S, IsFiniteSet(S)
               PROVE  SumFunctionOnSet(f, S) =
                        SumFunctionOnSet(f, T) + SumFunctionOnSet(f, S \ T)
    OBVIOUS
  <2> HIDE DEF Ticks
  <2> QED
    BY <2>1, SumSplits
<1> QED
  BY <1>1, <1>2, <1>3, Zenon DEF Within

\* Nothing at any tick is nothing altogether.
LEMMA NothingWithin ==
  \A f \in Counts : \A s, t \in Ticks : (\A u \in s..t : f[u] = 0) => Within(f, s, t) = 0
BY Intervals, SumOfZeros DEF Within, Counts

\* One more at a tick is one more in the intervals with that tick.
LEMMA OneMoreWithin ==
  \A f, g : \A s, t, n \in Ticks :
    f \in Counts /\ OneMore(f, n, g) =>
      /\ s <= n /\ n <= t => Within(g, s, t) = Within(f, s, t) + 1
      /\ n < s \/ t < n => Within(g, s, t) = Within(f, s, t)
<1> SUFFICES ASSUME NEW f \in Counts, NEW g, NEW s \in Ticks, NEW t \in Ticks, NEW n \in Ticks,
                    OneMore(f, n, g)
             PROVE  /\ s <= n /\ n <= t => Within(g, s, t) = Within(f, s, t) + 1
                    /\ n < s \/ t < n => Within(g, s, t) = Within(f, s, t)
  OBVIOUS
<1>1. s..t \in SUBSET Ticks /\ IsFiniteSet(s..t)
  BY Intervals
<1>2. SumFunctionOnSet(g, s..t) =
        IF n \in s..t THEN SumFunctionOnSet(f, s..t) + 1 ELSE SumFunctionOnSet(f, s..t)
  <2>1. f \in [Ticks -> Nat] /\ g \in [Ticks -> Nat]
        /\ g[n] = f[n] + 1 /\ \A u \in Ticks \ {n} : g[u] = f[u]
    BY DEF OneMore, Counts
  <2> DEFINE S == s..t
  <2>2. S \in SUBSET Ticks /\ IsFiniteSet(S)
    BY <1>1
  <2> HIDE DEF S
  <2>3. SumFunctionOnSet(g, S) =
          IF n \in S THEN SumFunctionOnSet(f, S) + 1 ELSE SumFunctionOnSet(f, S)
    BY <2>1, <2>2, SumCounts
  <2> QED
    BY <2>3 DEF S
<1>3. n \in s..t <=> s <= n /\ n <= t
  BY RateAssumption DEF Ticks
<1>4. ~ (n < s \/ t < n) <=> s <= n /\ n <= t
  BY RateAssumption DEF Ticks
<1> QED
  BY <1>2, <1>3, <1>4 DEF Within

-----------------------------------------------------------------------------
(* Fixed windows *)

Entry == [count : Nat, start : Ticks]

\* With entry e at tick t, a path let through what f counts, and at most m in a
\* window: all since the window was opened is counted, nothing was let through
\* after it, and what was before its start was at most m in as long a time.
FixedWindow(f, e, t, m) ==
  /\ \A u \in Ticks : u > t => f[u] = 0
  /\ e # Limits!NoEntry =>
       /\ e.count \in 1..m /\ e.start <= t
       /\ Since(f, e.start) <= e.count
       /\ \A u \in Ticks : u > e.start + Window => f[u] = 0
       /\ \A s \in Ticks : s < e.start /\ e.start - 1 - s <= Window =>
            Within(f, s, e.start - 1) <= m
  /\ e = Limits!NoEntry =>
       /\ \A u \in Ticks : u + Window >= t => f[u] = 0
       /\ \A s \in Ticks : s < t /\ t - 1 - s <= Window => Within(f, s, t - 1) <= m
  /\ \A s, u \in Ticks : s <= u /\ u - s <= Window => Within(f, s, u) <= 2 * m

\* At the start there is no entry and nothing has been let through.
LEMMA WindowInit ==
  \A f, m : m \in Nat /\ f = [u \in Ticks |-> 0] => FixedWindow(f, Limits!NoEntry, 0, m)
<1> SUFFICES ASSUME NEW f, NEW m \in Nat, f = [u \in Ticks |-> 0]
             PROVE  FixedWindow(f, Limits!NoEntry, 0, m)
  OBVIOUS
<1>1. \A s, u \in Ticks : Within(f, s, u) = 0
  <2>1. f \in Counts
    BY DEF Counts
  <2>2. \A s, u \in Ticks : \A v \in s..u : f[v] = 0
    BY RateAssumption DEF Ticks
  <2> QED
    BY <2>1, <2>2, NothingWithin
<1> QED
  BY <1>1, RateAssumption DEF FixedWindow, Ticks

\* Time passes: the future stays empty.
LEMMA WindowTicks ==
  \A f \in Counts : \A e \in Entry : \A t, m \in Nat :
    t + 1 \in Ticks /\ FixedWindow(f, e, t, m) => FixedWindow(f, e, t + 1, m)
<1> SUFFICES ASSUME NEW f \in Counts, NEW e \in Entry, NEW t \in Nat, NEW m \in Nat,
                    t + 1 \in Ticks, FixedWindow(f, e, t, m)
             PROVE  FixedWindow(f, e, t + 1, m)
  OBVIOUS
<1>1. ASSUME e = Limits!NoEntry, NEW s \in Ticks, s < t + 1, t - s <= Window
      PROVE  Within(f, s, t) <= m
  <2>1. \A u \in s..t : f[u] = 0
    BY <1>1, RateAssumption DEF FixedWindow, Ticks
  <2>2. t \in Ticks
    BY RateAssumption DEF Ticks
  <2> QED
    BY <2>1, <2>2, NothingWithin
<1>2. e = Limits!NoEntry =>
        /\ \A u \in Ticks : u + Window >= t + 1 => f[u] = 0
        /\ \A s \in Ticks : s < t + 1 /\ (t + 1) - 1 - s <= Window =>
             Within(f, s, (t + 1) - 1) <= m
  <2>1. (t + 1) - 1 = t
    OBVIOUS
  <2> QED
    BY <1>1, <2>1, RateAssumption DEF FixedWindow, Ticks
<1>3. (\A u \in Ticks : u > t + 1 => f[u] = 0) /\ (e # Limits!NoEntry => e.start <= t + 1)
  BY RateAssumption DEF FixedWindow, Ticks, Entry
<1> QED
  BY <1>2, <1>3 DEF FixedWindow

\* An entry is dropped when two windows have passed since it was made.
LEMMA WindowForgets ==
  \A f \in Counts : \A e \in Entry : \A t \in Ticks, m \in Nat :
    t - e.start > 2 * Window /\ FixedWindow(f, e, t, m) => FixedWindow(f, Limits!NoEntry, t, m)
<1> SUFFICES ASSUME NEW f \in Counts, NEW e \in Entry, NEW t \in Ticks, NEW m \in Nat,
                    t - e.start > 2 * Window, FixedWindow(f, e, t, m), e # Limits!NoEntry
             PROVE  FixedWindow(f, Limits!NoEntry, t, m)
  OBVIOUS
<1>1. \A u \in Ticks : u + Window >= t => f[u] = 0
  BY RateAssumption DEF FixedWindow, Ticks, Entry
<1>2. ASSUME NEW s \in Ticks, s < t, t - 1 - s <= Window
      PROVE  Within(f, s, t - 1) <= m
  <2>1. e.start <= s /\ t - 1 \in Ticks /\ LastTick \in Ticks /\ t - 1 <= LastTick
        /\ e.start \in Ticks
    BY <1>2, RateAssumption DEF Ticks, Entry
  <2>2. Within(f, s, t - 1) <= Since(f, e.start)
    BY <2>1, LongerIsMore DEF Since
  <2>3. Within(f, s, t - 1) \in Nat /\ Since(f, e.start) \in Nat
    BY <2>1, WithinIsNatural DEF Since
  <2>4. Since(f, e.start) <= e.count /\ e.count \in Nat /\ e.count <= m
    BY DEF FixedWindow, Entry
  <2> QED
    BY <2>2, <2>3, <2>4
<1> QED
  BY <1>1, <1>2 DEF FixedWindow

\* An interval with tick n is cut there: what is before n, and what is since.
LEMMA AroundTick ==
  \A f \in Counts : \A s, n, u \in Ticks :
    s <= n /\ n <= u =>
      /\ Within(f, s, u) \in Nat /\ Since(f, n) \in Nat
      /\ n <= s => Within(f, s, u) <= Since(f, n)
      /\ s < n => /\ Within(f, s, n - 1) \in Nat
                  /\ Within(f, s, u) <= Within(f, s, n - 1) + Since(f, n)
<1> SUFFICES ASSUME NEW f \in Counts, NEW s \in Ticks, NEW n \in Ticks, NEW u \in Ticks,
                    s <= n, n <= u
             PROVE  /\ Within(f, s, u) \in Nat /\ Since(f, n) \in Nat
                    /\ n <= s => Within(f, s, u) <= Since(f, n)
                    /\ s < n => /\ Within(f, s, n - 1) \in Nat
                                /\ Within(f, s, u) <= Within(f, s, n - 1) + Since(f, n)
  OBVIOUS
<1>1. LastTick \in Ticks /\ u <= LastTick /\ n <= n
  BY RateAssumption DEF Ticks
<1>2. Within(f, s, u) \in Nat /\ Since(f, n) \in Nat /\ Within(f, n, u) \in Nat
  BY <1>1, WithinIsNatural DEF Since
<1>3. Within(f, n, u) <= Since(f, n) /\ (n <= s => Within(f, s, u) <= Since(f, n))
  BY <1>1, LongerIsMore DEF Since
<1>4. ASSUME s < n
      PROVE  /\ Within(f, s, n - 1) \in Nat
             /\ Within(f, s, u) <= Within(f, s, n - 1) + Since(f, n)
  <2>1. n - 1 \in Ticks
    BY <1>4, RateAssumption DEF Ticks
  <2>2. Within(f, s, n - 1) \in Nat
    BY <2>1, WithinIsNatural
  <2>3. Within(f, s, u) = Within(f, s, n - 1) + Within(f, n, u)
    BY <1>4, CutInTwo
  <2> QED
    BY <1>2, <1>3, <2>2, <2>3
<1> QED
  BY <1>2, <1>3, <1>4

\* Of a window that is over, and of an entry that was dropped, less than a window
\* ago no more than m was let through, and nothing now.
LEMMA WindowOver ==
  \A f \in Counts : \A e \in Entry : \A t \in Ticks, m \in Nat :
    (e = Limits!NoEntry \/ t - e.start > Window) /\ FixedWindow(f, e, t, m) =>
      /\ Since(f, t) = 0
      /\ \A s \in Ticks : s < t /\ t - 1 - s <= Window => Within(f, s, t - 1) <= m
<1> SUFFICES ASSUME NEW f \in Counts, NEW e \in Entry, NEW t \in Ticks, NEW m \in Nat,
                    e = Limits!NoEntry \/ t - e.start > Window, FixedWindow(f, e, t, m)
             PROVE  /\ Since(f, t) = 0
                    /\ \A s \in Ticks : s < t /\ t - 1 - s <= Window =>
                         Within(f, s, t - 1) <= m
  OBVIOUS
<1>1. LastTick \in Ticks
  BY RateAssumption DEF Ticks
<1>2. Since(f, t) = 0
  <2>1. \A u \in t..LastTick : f[u] = 0
    BY RateAssumption DEF FixedWindow, Ticks, Entry
  <2> QED
    BY <1>1, <2>1, NothingWithin DEF Since
<1>3. ASSUME e # Limits!NoEntry, NEW s \in Ticks, s < t, t - 1 - s <= Window
      PROVE  Within(f, s, t - 1) <= m
  <2>1. e.start <= s /\ t - 1 \in Ticks /\ t - 1 <= LastTick /\ e.start \in Ticks
    BY <1>3, RateAssumption DEF Ticks, Entry
  <2>2. Within(f, s, t - 1) <= Since(f, e.start)
    BY <1>1, <2>1, LongerIsMore DEF Since
  <2>3. Within(f, s, t - 1) \in Nat /\ Since(f, e.start) \in Nat
    BY <1>1, <2>1, WithinIsNatural DEF Since
  <2>4. Since(f, e.start) <= e.count /\ e.count \in Nat /\ e.count <= m
    BY <1>3 DEF FixedWindow, Entry
  <2> QED
    BY <2>2, <2>3, <2>4
<1> QED
  BY <1>2, <1>3 DEF FixedWindow

\* The first request after a window opens the next.
LEMMA WindowOpens ==
  \A f, g \in Counts : \A e \in Entry : \A t \in Ticks, m \in Nat \ {0} :
    /\ e = Limits!NoEntry \/ t - e.start > Window
    /\ FixedWindow(f, e, t, m) /\ OneMore(f, t, g)
    => FixedWindow(g, [count |-> 1, start |-> t], t, m)
<1> SUFFICES ASSUME NEW f \in Counts, NEW g \in Counts, NEW e \in Entry, NEW t \in Ticks,
                    NEW m \in Nat \ {0}, e = Limits!NoEntry \/ t - e.start > Window,
                    FixedWindow(f, e, t, m), OneMore(f, t, g)
             PROVE  FixedWindow(g, [count |-> 1, start |-> t], t, m)
  OBVIOUS
<1>1. /\ Since(f, t) = 0
      /\ \A s \in Ticks : s < t /\ t - 1 - s <= Window => Within(f, s, t - 1) <= m
  BY WindowOver
<1>2. LastTick \in Ticks /\ t <= LastTick /\ t <= t /\ \A s \in Ticks : s < t => t - 1 \in Ticks
  BY RateAssumption DEF Ticks
<1>3. Since(g, t) = 1
  BY <1>1, <1>2, OneMoreWithin DEF Since
<1>4. \A s \in Ticks : s < t /\ t - 1 - s <= Window => Within(g, s, t - 1) <= m
  <2>1. \A s \in Ticks : s < t => Within(g, s, t - 1) = Within(f, s, t - 1)
    <3> SUFFICES ASSUME NEW s \in Ticks, s < t
                 PROVE  Within(g, s, t - 1) = Within(f, s, t - 1)
      OBVIOUS
    <3>1. t - 1 < t /\ t - 1 \in Ticks
      BY <1>2, RateAssumption DEF Ticks
    <3> QED
      BY <3>1, OneMoreWithin
  <2> QED
    BY <1>1, <2>1
<1>5. \A u \in Ticks : u > t => g[u] = 0
  BY RateAssumption DEF FixedWindow, OneMore, Ticks
<1>6. ASSUME NEW s \in Ticks, NEW u \in Ticks, s <= u, u - s <= Window
      PROVE  Within(g, s, u) <= 2 * m
  <2>1. CASE t < s \/ u < t
    <3>1. Within(g, s, u) = Within(f, s, u)
      BY <2>1, OneMoreWithin
    <3> QED
      BY <1>6, <3>1 DEF FixedWindow
  <2>2. CASE s <= t /\ t <= u
    <3>1. CASE s = t
      <4>1. Within(g, s, u) <= Since(g, t) /\ Within(g, s, u) \in Nat
        BY <2>2, <3>1, AroundTick
      <4> QED
        BY <1>3, <4>1
    <3>2. CASE s < t
      <4>1. Within(g, s, u) <= Within(g, s, t - 1) + Since(g, t)
            /\ Within(g, s, u) \in Nat /\ Within(g, s, t - 1) \in Nat
        BY <2>2, <3>2, AroundTick
      <4>2. Within(g, s, t - 1) <= m
        BY <1>4, <1>6, <2>2, <3>2, RateAssumption DEF Ticks
      <4> QED
        BY <1>3, <4>1, <4>2
    <3> QED
      BY <2>2, <3>1, <3>2, RateAssumption DEF Ticks
  <2> QED
    BY <2>1, <2>2, RateAssumption DEF Ticks
<1>7. [count |-> 1, start |-> t] # Limits!NoEntry /\ [count |-> 1, start |-> t].count \in 1..m
      /\ [count |-> 1, start |-> t].start = t /\ [count |-> 1, start |-> t].count = 1
  BY DEF Limits!NoEntry
<1>8. \A u \in Ticks : u > t + Window => g[u] = 0
  BY <1>5, RateAssumption DEF Ticks
<1> DEFINE opened == [count |-> 1, start |-> t]
<1>9. opened # Limits!NoEntry /\ opened.count \in 1..m /\ opened.start = t /\ opened.count = 1
  BY <1>7
<1> HIDE DEF opened
<1>10. FixedWindow(g, opened, t, m)
  BY <1>3, <1>4, <1>5, <1>6, <1>8, <1>9, RateAssumption DEF FixedWindow, Ticks
<1> QED
  BY <1>10 DEF opened

\* A request that finds room is counted.
LEMMA WindowCounts ==
  \A f, g \in Counts : \A e, d \in Entry : \A t \in Ticks, m \in Nat \ {0} :
    /\ e # Limits!NoEntry /\ e.count < m
    /\ d.start = e.start /\ d.count = e.count + 1
    /\ FixedWindow(f, e, t, m) /\ OneMore(f, t, g) /\ t <= e.start + Window
    => FixedWindow(g, d, t, m)
<1> SUFFICES ASSUME NEW f \in Counts, NEW g \in Counts, NEW e \in Entry, NEW d \in Entry,
                    NEW t \in Ticks, NEW m \in Nat \ {0}, e # Limits!NoEntry, e.count < m,
                    d.start = e.start, d.count = e.count + 1,
                    FixedWindow(f, e, t, m), OneMore(f, t, g), t <= e.start + Window
             PROVE  FixedWindow(g, d, t, m)
  OBVIOUS
<1> DEFINE b == e.start
<1>1. b \in Ticks /\ b <= t /\ e.count \in Nat /\ e.count <= m /\ LastTick \in Ticks
      /\ t <= LastTick /\ d # Limits!NoEntry /\ d.count \in 1..m /\ d.start = b
  BY RateAssumption DEF FixedWindow, Entry, Ticks, Limits!NoEntry
<1>2. Since(f, b) <= e.count
      /\ (\A u \in Ticks : u > b + Window => f[u] = 0)
      /\ \A s \in Ticks : s < b /\ b - 1 - s <= Window => Within(f, s, b - 1) <= m
  BY DEF FixedWindow
<1> HIDE DEF b
<1>3. Since(g, b) <= d.count /\ Since(g, b) \in Nat /\ Since(g, b) <= m
  <2>1. Since(g, b) = Since(f, b) + 1 /\ Since(f, b) \in Nat
    BY <1>1, OneMoreWithin, WithinIsNatural DEF Since
  <2> QED
    BY <1>1, <1>2, <2>1
<1>4. \A s \in Ticks : s < b /\ b - 1 - s <= Window =>
        Within(g, s, b - 1) <= m
  <2> SUFFICES ASSUME NEW s \in Ticks, s < b, b - 1 - s <= Window
               PROVE  Within(g, s, b - 1) <= m
    OBVIOUS
  <2>1. b - 1 < t /\ b - 1 \in Ticks
    BY <1>1, RateAssumption DEF Ticks
  <2>2. Within(g, s, b - 1) = Within(f, s, b - 1)
    BY <2>1, OneMoreWithin
  <2> QED
    BY <1>2, <2>2
<1>5. (\A u \in Ticks : u > t => g[u] = 0) /\ \A u \in Ticks : u > b + Window => g[u] = 0
  BY <1>1, <1>2, RateAssumption DEF FixedWindow, OneMore, Ticks, b
<1>6. ASSUME NEW s \in Ticks, NEW u \in Ticks, s <= u, u - s <= Window
      PROVE  Within(g, s, u) <= 2 * m
  <2>1. CASE t < s \/ u < t
    <3>1. Within(g, s, u) = Within(f, s, u)
      BY <2>1, OneMoreWithin
    <3> QED
      BY <1>6, <3>1 DEF FixedWindow
  <2>2. CASE s <= t /\ t <= u /\ b <= s
    <3>1. Within(g, s, u) <= Since(g, b) /\ Within(g, s, u) \in Nat
      BY <1>1, <2>2, LongerIsMore, WithinIsNatural, RateAssumption DEF Since, Ticks
    <3> QED
      BY <1>3, <3>1
  <2>3. CASE s <= t /\ t <= u /\ s < b
    <3>1. b <= u
      BY <1>1, <2>3, RateAssumption DEF Ticks
    <3>2. s <= b
      BY <2>3, <1>1, RateAssumption DEF Ticks
    <3>3. Within(g, s, u) <= Within(g, s, b - 1) + Since(g, b)
          /\ Within(g, s, u) \in Nat /\ Within(g, s, b - 1) \in Nat
      BY <1>1, <2>3, <3>1, <3>2, AroundTick
    <3>4. Within(g, s, b - 1) <= m
      BY <1>1, <1>4, <1>6, <2>3, <3>1, RateAssumption DEF Ticks
    <3> QED
      BY <1>3, <3>3, <3>4
  <2> QED
    BY <1>1, <2>1, <2>2, <2>3, RateAssumption DEF Ticks
<1> QED
  BY <1>1, <1>3, <1>4, <1>5, <1>6 DEF FixedWindow

-----------------------------------------------------------------------------
(* Timestamps *)

\* With timestamps q at tick t: what was let through since any tick of the last
\* window is no more than the stamps that are not from before it.
Stamped(f, q, t) ==
  /\ \A u \in Ticks : u > t => f[u] = 0
  /\ \A n \in 0..Len(q), s \in Ticks :
       s + Window >= t /\ (\A i \in 1..n : q[i] < s) => Since(f, s) <= Len(q) - n
  /\ \A s, u \in Ticks : s <= u /\ u - s <= Window => Within(f, s, u) <= ExchangeMax

\* The stamps from before the window are shifted out.
LEMMA StampsShift ==
  \A f \in Counts : \A q, r \in Seq(Ticks) : \A t \in Ticks : \A n \in 0..Len(q) :
    /\ Len(r) = Len(q) - n /\ \A i \in 1..Len(r) : r[i] = q[n + i]
    /\ \A i \in 1..n : q[i] + Window < t
    /\ Stamped(f, q, t)
    => Stamped(f, r, t)
<1> SUFFICES ASSUME NEW f \in Counts, NEW q \in Seq(Ticks), NEW r \in Seq(Ticks),
                    NEW t \in Ticks, NEW n \in 0..Len(q),
                    Len(r) = Len(q) - n, \A i \in 1..Len(r) : r[i] = q[n + i],
                    \A i \in 1..n : q[i] + Window < t,
                    Stamped(f, q, t)
             PROVE  Stamped(f, r, t)
  OBVIOUS
<1> SUFFICES ASSUME NEW k \in 0..Len(r), NEW s \in Ticks, s + Window >= t,
                    \A i \in 1..k : r[i] < s
             PROVE  Since(f, s) <= Len(r) - k
  BY DEF Stamped
<1>1. Len(q) \in Nat /\ n + k \in 0..Len(q) /\ Len(r) - k = Len(q) - (n + k)
  OBVIOUS
<1>2. \A i \in 1..(n + k) : q[i] < s
  <2> SUFFICES ASSUME NEW i \in 1..(n + k) PROVE q[i] < s
    OBVIOUS
  <2>1. i \in 1..Len(q) /\ q[i] \in Nat /\ s \in Nat /\ t \in Nat
    BY <1>1, RateAssumption DEF Ticks
  <2>2. CASE i <= n
    BY <2>1, <2>2, RateAssumption
  <2>3. CASE i > n
    <3>1. i - n \in 1..k /\ i - n \in 1..Len(r) /\ n + (i - n) = i
      BY <2>1, <2>3
    <3> QED
      BY <3>1
  <2> QED
    BY <2>1, <2>2, <2>3
<1> QED
  BY <1>1, <1>2 DEF Stamped

\* A request that finds room is stamped.
LEMMA StampsAdd ==
  \A f, g \in Counts : \A q, r \in Seq(Ticks) : \A t \in Ticks :
    /\ r = Append(q, t) /\ Len(q) < ExchangeMax
    /\ Stamped(f, q, t) /\ OneMore(f, t, g)
    => Stamped(g, r, t)
<1> SUFFICES ASSUME NEW f \in Counts, NEW g \in Counts, NEW q \in Seq(Ticks),
                    NEW r \in Seq(Ticks), NEW t \in Ticks, r = Append(q, t),
                    Len(q) < ExchangeMax, Stamped(f, q, t), OneMore(f, t, g)
             PROVE  Stamped(g, r, t)
  OBVIOUS
<1>1. /\ Len(q) \in Nat /\ Len(r) = Len(q) + 1 /\ r[Len(q) + 1] = t
      /\ \A i \in 1..Len(q) : r[i] = q[i]
  OBVIOUS
<1>2. \A u \in Ticks : u > t => g[u] = 0
  BY RateAssumption DEF Stamped, OneMore, Ticks
<1>3. LastTick \in Ticks /\ t <= LastTick /\ t <= t
  BY RateAssumption DEF Ticks
<1>4. ASSUME NEW n \in 0..Len(r), NEW s \in Ticks, s + Window >= t, \A i \in 1..n : r[i] < s
      PROVE  Since(g, s) <= Len(r) - n
  <2>1. CASE s <= t
    <3>1. Since(g, s) = Since(f, s) + 1 /\ Since(f, s) \in Nat
      BY <1>3, <2>1, OneMoreWithin, WithinIsNatural DEF Since
    <3>2. n # Len(q) + 1
      <4> SUFFICES ASSUME n = Len(q) + 1 PROVE FALSE
        OBVIOUS
      <4>1. r[Len(q) + 1] < s
        BY <1>1, <1>4
      <4> QED
        BY <1>1, <2>1, <4>1, RateAssumption DEF Ticks
    <3>3. n \in 0..Len(q) /\ \A i \in 1..n : q[i] < s
      BY <1>1, <1>4, <3>2
    <3>4. Since(f, s) <= Len(q) - n
      BY <1>4, <3>3 DEF Stamped
    <3> QED
      BY <1>1, <3>1, <3>3, <3>4
  <2>2. CASE t < s
    <3>1. \A u \in s..LastTick : g[u] = 0
      BY <1>2, <2>2, RateAssumption DEF Ticks
    <3>2. Since(g, s) = 0
      BY <1>3, <3>1, NothingWithin DEF Since
    <3> QED
      BY <1>1, <3>2
  <2> QED
    BY <2>1, <2>2, RateAssumption DEF Ticks
<1>5. ASSUME NEW s \in Ticks, NEW u \in Ticks, s <= u, u - s <= Window
      PROVE  Within(g, s, u) <= ExchangeMax
  <2>1. CASE t < s \/ u < t
    <3>1. Within(g, s, u) = Within(f, s, u)
      BY <2>1, OneMoreWithin
    <3> QED
      BY <1>5, <3>1 DEF Stamped
  <2>2. CASE s <= t /\ t <= u
    <3>1. s + Window >= t /\ u <= LastTick /\ s <= s
      BY <1>5, <2>2, RateAssumption DEF Ticks
    <3>2. Within(g, s, u) <= Since(g, s) /\ Within(g, s, u) \in Nat /\ Since(g, s) \in Nat
      BY <1>3, <3>1, LongerIsMore, WithinIsNatural DEF Since
    <3>3. Since(g, s) <= Len(r) - 0
      BY <1>1, <1>4, <3>1
    <3> QED
      BY <1>1, <3>2, <3>3, RateAssumption
  <2> QED
    BY <2>1, <2>2, RateAssumption DEF Ticks
<1> QED
  BY <1>2, <1>4, <1>5 DEF Stamped

\* Nothing is let through, and time passes.
LEMMA StampsInitAndTick ==
  /\ \A f : f = [u \in Ticks |-> 0] => Stamped(f, <<>>, 0)
  /\ \A f \in Counts : \A q \in Seq(Ticks) : \A t \in Ticks :
       Stamped(f, q, t) => Stamped(f, q, t + 1)
<1>1. ASSUME NEW f, f = [u \in Ticks |-> 0] PROVE Stamped(f, <<>>, 0)
  <2>1. \A s, u \in Ticks : Within(f, s, u) = 0
    <3>1. f \in Counts
      BY <1>1 DEF Counts
    <3>2. \A s, u \in Ticks : \A v \in s..u : f[v] = 0
      BY <1>1, RateAssumption DEF Ticks
    <3> QED
      BY <3>1, <3>2, NothingWithin
  <2>2. LastTick \in Ticks
    BY RateAssumption DEF Ticks
  <2>3. Len(<<>>) = 0 /\ \A n \in 0..0 : 0 <= 0 - n
    OBVIOUS
  <2>4. \A u \in Ticks : f[u] = 0
    BY <1>1
  <2> QED
    BY <2>1, <2>2, <2>3, <2>4, RateAssumption DEF Stamped, Since
<1>2. ASSUME NEW f \in Counts, NEW q \in Seq(Ticks), NEW t \in Ticks, Stamped(f, q, t)
      PROVE  Stamped(f, q, t + 1)
  BY <1>2, RateAssumption DEF Stamped, Ticks
<1> QED
  BY <1>1, <1>2

-----------------------------------------------------------------------------
(* The token bucket *)

\* The bucket when it is full, in parts that a tick refills.
Full == Capacity * TokenTicks

\* With p parts counted at tick a: what was let through since any tick, and what
\* is left, is no more than the bucket and what was refilled since.
Metered(f, p, a) ==
  /\ \A u \in Ticks : u > a => f[u] = 0
  /\ \A s \in Ticks : s <= a => TokenTicks * Since(f, s) + p <= Full + (a - s)
  /\ \A s, u \in Ticks : s <= u => TokenTicks * Within(f, s, u) <= Full + (u - s)

\* One token more costs the parts of one token.
LEMMA TokenCost ==
  /\ Full \in Nat
  /\ \A n \in Nat : TokenTicks * n \in Nat /\ TokenTicks * (n + 1) = TokenTicks * n + TokenTicks
  /\ \A m, n \in Nat : m <= n => TokenTicks * m <= TokenTicks * n
BY RateAssumption DEF Full

\* The bucket is full at the start.
LEMMA BucketInit == \A f : f = [u \in Ticks |-> 0] => Metered(f, Full, 0)
<1> SUFFICES ASSUME NEW f, f = [u \in Ticks |-> 0] PROVE Metered(f, Full, 0)
  OBVIOUS
<1>1. \A s, u \in Ticks : Within(f, s, u) = 0
  <2>1. f \in Counts
    BY DEF Counts
  <2>2. \A s, u \in Ticks : \A v \in s..u : f[v] = 0
    BY RateAssumption DEF Ticks
  <2> QED
    BY <2>1, <2>2, NothingWithin
<1>2. LastTick \in Ticks /\ TokenTicks * 0 = 0
  BY RateAssumption DEF Ticks
<1> QED
  BY <1>1, <1>2, TokenCost, RateAssumption DEF Metered, Since, Ticks

\* The bucket is refilled for the time since it was last counted.
LEMMA BucketRefills ==
  \A f \in Counts : \A p, r \in Nat : \A a, t \in Ticks :
    a <= t /\ r <= Full /\ r <= p + (t - a) /\ Metered(f, p, a) => Metered(f, r, t)
<1> SUFFICES ASSUME NEW f \in Counts, NEW p \in Nat, NEW r \in Nat, NEW a \in Ticks,
                    NEW t \in Ticks, a <= t, r <= Full, r <= p + (t - a), Metered(f, p, a)
             PROVE  Metered(f, r, t)
  OBVIOUS
<1>1. a \in Nat /\ t \in Nat /\ Full \in Nat /\ LastTick \in Ticks
  BY TokenCost, RateAssumption DEF Ticks
<1>2. ASSUME NEW s \in Ticks, s <= t PROVE TokenTicks * Since(f, s) + r <= Full + (t - s)
  <2>1. s \in Nat
    BY RateAssumption DEF Ticks
  <2>2. CASE s <= a
    <3>1. Since(f, s) \in Nat
      BY <1>1, WithinIsNatural DEF Since
    <3>2. TokenTicks * Since(f, s) \in Nat
      BY <3>1, TokenCost
    <3>3. TokenTicks * Since(f, s) + p <= Full + (a - s)
      BY <2>2 DEF Metered
    <3> HIDE DEF Full
    <3> QED
      BY <1>1, <2>1, <3>2, <3>3
  <2>3. CASE a < s
    <3>1. \A u \in s..LastTick : f[u] = 0
      BY <1>1, <2>3, RateAssumption DEF Metered, Ticks
    <3>2. Since(f, s) = 0
      BY <1>1, <3>1, NothingWithin DEF Since
    <3>3. TokenTicks * 0 = 0
      BY RateAssumption
    <3> QED
      BY <1>1, <1>2, <2>1, <3>2, <3>3
  <2> QED
    BY <1>1, <2>1, <2>2, <2>3
<1> QED
  BY <1>1, <1>2, RateAssumption DEF Metered, Ticks

\* A token is taken.
LEMMA BucketGives ==
  \A f, g \in Counts : \A p, r \in Nat : \A t \in Ticks :
    p >= TokenTicks /\ r = p - TokenTicks /\ Metered(f, p, t) /\ OneMore(f, t, g) => Metered(g, r, t)
<1> SUFFICES ASSUME NEW f \in Counts, NEW g \in Counts, NEW p \in Nat, NEW r \in Nat,
                    NEW t \in Ticks, p >= TokenTicks, r = p - TokenTicks,
                    Metered(f, p, t), OneMore(f, t, g)
             PROVE  Metered(g, r, t)
  OBVIOUS
<1>1. t \in Nat /\ Full \in Nat /\ TokenTicks \in Nat /\ LastTick \in Ticks /\ t <= LastTick
  BY TokenCost, RateAssumption DEF Ticks
<1>2. ASSUME NEW s \in Ticks, s <= t PROVE TokenTicks * Since(g, s) + r <= Full + (t - s)
  <2>1. Since(g, s) = Since(f, s) + 1 /\ Since(f, s) \in Nat
    BY <1>1, <1>2, OneMoreWithin, WithinIsNatural DEF Since
  <2>2. TokenTicks * Since(f, s) \in Nat
        /\ TokenTicks * Since(g, s) = TokenTicks * Since(f, s) + TokenTicks
    BY <2>1, TokenCost
  <2>3. TokenTicks * Since(f, s) + p <= Full + (t - s)
    BY <1>2 DEF Metered
  <2>4. s \in Nat
    BY RateAssumption DEF Ticks
  <2> QED
    BY <1>1, <2>2, <2>3, <2>4
<1>3. ASSUME NEW s \in Ticks, NEW u \in Ticks, s <= u
      PROVE  TokenTicks * Within(g, s, u) <= Full + (u - s)
  <2>1. s \in Nat /\ u \in Nat /\ u <= LastTick /\ s <= s
    BY RateAssumption DEF Ticks
  <2>2. CASE t < s \/ u < t
    <3>1. Within(g, s, u) = Within(f, s, u)
      BY <2>2, OneMoreWithin
    <3> QED
      BY <1>3, <3>1 DEF Metered
  <2>3. CASE s <= t /\ t <= u
    <3>1. Within(g, s, u) <= Since(g, s) /\ Within(g, s, u) \in Nat /\ Since(g, s) \in Nat
      BY <1>1, <2>1, LongerIsMore, WithinIsNatural DEF Since
    <3>2. TokenTicks * Within(g, s, u) <= TokenTicks * Since(g, s)
          /\ TokenTicks * Within(g, s, u) \in Nat /\ TokenTicks * Since(g, s) \in Nat
      BY <3>1, TokenCost
    <3>3. TokenTicks * Since(g, s) + r <= Full + (t - s)
      BY <1>2, <2>3
    <3> QED
      BY <1>1, <2>1, <2>3, <3>2, <3>3
  <2> QED
    BY <1>1, <2>1, <2>2, <2>3
<1>4. \A u \in Ticks : u > t => g[u] = 0
  BY RateAssumption DEF Metered, OneMore, Ticks
<1> QED
  BY <1>2, <1>3, <1>4 DEF Metered

-----------------------------------------------------------------------------
(* The limiters *)

\* What each limiter keeps tells what it has let through.
LimitsHeld ==
  /\ \A k \in Limits!Keys : FixedWindow(passed[k], windows[k], now, Limits!MaxOf[k])
  /\ Stamped(passed["exchange"], stamps, now)
  /\ Metered(passed["reads"], tokenBucket.parts, tokenBucket.at)
  /\ tokenBucket.at <= now

\* Types, with the names of this module.
LEMMA LimitTypes ==
  ASSUME Limits!TypeOK
  PROVE  /\ now \in Ticks /\ now \in Nat /\ LastTick \in Nat
         /\ \A k \in Limits!Keys : windows[k] \in Entry /\ passed[k] \in Counts
                                   /\ Limits!MaxOf[k] \in Nat \ {0} /\ Limits!MaxOf[k] <= UserMax
         /\ passed["exchange"] \in Counts /\ passed["reads"] \in Counts
         /\ stamps \in Seq(Ticks)
         /\ tokenBucket.parts \in Nat /\ tokenBucket.at \in Ticks
<1>1. now \in Ticks /\ now \in Nat /\ LastTick \in Nat
      /\ passed["exchange"] \in Counts /\ passed["reads"] \in Counts
      /\ stamps \in Seq(Ticks) /\ tokenBucket.parts \in Nat /\ tokenBucket.at \in Ticks
  BY RateAssumption DEF Limits!TypeOK, Ticks, Counts
<1>2. ASSUME NEW k \in Limits!Keys
      PROVE  windows[k] \in Entry /\ passed[k] \in Counts
             /\ Limits!MaxOf[k] \in Nat \ {0} /\ Limits!MaxOf[k] <= UserMax
  <2>1. Limits!MaxOf[k] \in Nat \ {0} /\ Limits!MaxOf[k] <= UserMax
    BY RateAssumption DEF Limits!MaxOf, Limits!Keys
  <2>2. windows[k] \in [count : 0..UserMax, start : 0..LastTick]
        /\ passed[k] \in [0..LastTick -> Nat]
    BY DEF Limits!TypeOK
  <2>3. 0..UserMax \subseteq Nat
    BY RateAssumption
  <2> QED
    BY <2>1, <2>2, <2>3 DEF Entry, Ticks, Counts
<1> QED
  BY <1>1, <1>2

\* The limiters start empty, and the bucket full.
LEMMA LimitsStart == Limits!Init => Limits!TypeOK /\ LimitsHeld
<1> SUFFICES ASSUME Limits!Init PROVE Limits!TypeOK /\ LimitsHeld
  OBVIOUS
<1>1. Limits!TypeOK
  <2>1. Capacity * TokenTicks \in 0..(Capacity * TokenTicks) /\ 0 \in 0..LastTick /\ 0 \in 0..UserMax
    BY RateAssumption
  <2>2. [t \in 0..LastTick |-> 0] \in [0..LastTick -> Nat]
    OBVIOUS
  <2>3. <<>> \in Seq(0..LastTick) /\ Len(<<>>) <= ExchangeMax
    BY RateAssumption
  <2> QED
    BY <2>1, <2>2, <2>3 DEF Limits!Init, Limits!TypeOK, Limits!NoEntry
<1> DEFINE none == [u \in Ticks |-> 0]
<1>2. /\ \A k \in Limits!Keys : passed[k] = none /\ windows[k] = Limits!NoEntry
      /\ passed["exchange"] = none /\ passed["reads"] = none
      /\ stamps = <<>> /\ now = 0
      /\ tokenBucket.parts = Full /\ tokenBucket.at = 0
  BY DEF Limits!Init, Limits!Keys, Full, Ticks
<1>3. \A k \in Limits!Keys : Limits!MaxOf[k] \in Nat
  BY <1>1, LimitTypes
<1>4. \A m \in Nat : FixedWindow(none, Limits!NoEntry, 0, m)
  BY WindowInit
<1>5. Stamped(none, <<>>, 0) /\ Metered(none, Full, 0)
  BY StampsInitAndTick, BucketInit
<1> HIDE DEF none, Full
<1>6. LimitsHeld
  BY <1>2, <1>3, <1>4, <1>5 DEF LimitsHeld
<1> QED
  BY <1>1, <1>6

\* A request that a window admits leaves it telling the truth.
LEMMA Admitted ==
  ASSUME Limits!TypeOK, LimitsHeld, NEW k \in Limits!Keys, Limits!Admits(k),
         NEW g, OneMore(passed[k], now, g)
  PROVE  /\ FixedWindow(g, Limits!Counted(k), now, Limits!MaxOf[k])
         /\ Limits!Counted(k) \in [count : 0..UserMax, start : 0..LastTick]
<1> DEFINE e == windows[k]
           m == Limits!MaxOf[k]
           f == passed[k]
<1>1. /\ e \in [count : 0..UserMax, start : 0..LastTick] /\ e \in Entry /\ f \in Counts
      /\ m \in Nat \ {0} /\ m <= UserMax /\ now \in Ticks
      /\ g \in Counts /\ FixedWindow(f, e, now, m) /\ OneMore(f, now, g)
  BY LimitTypes DEF LimitsHeld, OneMore, Limits!TypeOK
<1>2. CASE Limits!IsNew(e)
  <2>1. Limits!Counted(k) = [count |-> 1, start |-> now]
    BY <1>2 DEF Limits!Counted
  <2>2. e = Limits!NoEntry \/ now - e.start > Window
    BY <1>2 DEF Limits!IsNew
  <2> HIDE DEF e, m, f
  <2>3. FixedWindow(g, [count |-> 1, start |-> now], now, m)
    BY <1>1, <2>2, WindowOpens
  <2>4. [count |-> 1, start |-> now] \in [count : 0..UserMax, start : 0..LastTick]
    BY <1>1, RateAssumption DEF Ticks
  <2> QED
    BY <2>1, <2>3, <2>4 DEF m
<1>3. CASE ~Limits!IsNew(e)
  <2>1. Limits!Counted(k) = [e EXCEPT !.count = @ + 1]
    BY <1>3 DEF Limits!Counted
  <2>2. e # Limits!NoEntry /\ ~ (now - e.start > Window) /\ e.count < m
    BY <1>3 DEF Limits!IsNew, Limits!Admits
  <2> DEFINE d == [e EXCEPT !.count = @ + 1]
  <2> HIDE DEF e, m, f
  <2>3. /\ d \in Entry /\ d \in [count : 0..UserMax, start : 0..LastTick]
        /\ d.start = e.start /\ d.count = e.count + 1
    BY <1>1, <2>2, RateAssumption DEF Entry, Ticks
  <2>4. now <= e.start + Window
    BY <1>1, <2>2, RateAssumption DEF Entry, Ticks
  <2> HIDE DEF d
  <2>5. FixedWindow(g, d, now, m)
    BY <1>1, <2>2, <2>3, <2>4, WindowCounts
  <2> QED
    BY <2>1, <2>3, <2>5 DEF d, m
<1> QED
  BY <1>2, <1>3

\* A procedure is called.
LEMMA ProcedureStep ==
  ASSUME Limits!TypeOK, LimitsHeld, Limits!CallProcedure
  PROVE  Limits!TypeOK' /\ LimitsHeld'
<1>1. PICK sensitive \in BOOLEAN :
        LET through == Limits!Passing(sensitive) IN
        /\ windows' = [k \in Limits!Keys |->
                         IF k \in through THEN Limits!Counted(k) ELSE windows[k]]
        /\ passed' = [k \in DOMAIN passed |->
                        IF k \in through THEN [passed[k] EXCEPT ![now] = @ + 1] ELSE passed[k]]
  BY DEF Limits!CallProcedure
<1> DEFINE through == Limits!Passing(sensitive)
<1>2. through \subseteq Limits!Keys /\ \A k \in through : Limits!Admits(k)
  BY DEF Limits!Passing, Limits!Keys
<1> HIDE DEF through
<1>3. /\ windows' = [k \in Limits!Keys |->
                       IF k \in through THEN Limits!Counted(k) ELSE windows[k]]
      /\ passed' = [k \in DOMAIN passed |->
                      IF k \in through THEN [passed[k] EXCEPT ![now] = @ + 1] ELSE passed[k]]
  BY <1>1 DEF through
<1>4. DOMAIN passed = Limits!Keys \cup {"reads", "exchange"}
      /\ passed["reads"]' = passed["reads"] /\ passed["exchange"]' = passed["exchange"]
  BY <1>2, <1>3 DEF Limits!TypeOK, Limits!Keys
<1>5. ASSUME NEW k \in through PROVE OneMore(passed[k], now, passed'[k])
  <2>1. passed[k] \in Counts /\ now \in Ticks /\ k \in DOMAIN passed
    BY <1>2, <1>4, LimitTypes
  <2>2. passed'[k] = [passed[k] EXCEPT ![now] = @ + 1]
    BY <1>3, <2>1
  <2> QED
    BY <2>1, <2>2 DEF OneMore, Counts
<1>6. ASSUME NEW k \in Limits!Keys
      PROVE  /\ FixedWindow(passed'[k], windows'[k], now, Limits!MaxOf[k])
             /\ windows'[k] \in [count : 0..UserMax, start : 0..LastTick]
             /\ passed'[k] \in Counts
  <2>1. CASE k \in through
    <3>1. windows'[k] = Limits!Counted(k)
      BY <1>3, <2>1
    <3> QED
      BY <1>2, <1>5, <2>1, <3>1, Admitted DEF OneMore
  <2>2. CASE k \notin through
    <3>1. windows'[k] = windows[k] /\ passed'[k] = passed[k]
      BY <1>3, <1>4, <2>2
    <3> QED
      BY <3>1, LimitTypes DEF LimitsHeld, Limits!TypeOK
  <2> QED
    BY <2>1, <2>2
<1>7. UNCHANGED <<limiter, now, tokenBucket, stamps>>
  BY DEF Limits!CallProcedure
<1>8. windows' \in [Limits!Keys -> [count : 0..UserMax, start : 0..LastTick]]
  BY <1>3, <1>6
<1>9. passed' \in [Limits!Keys \cup {"reads", "exchange"} -> [0..LastTick -> Nat]]
  <2>1. DOMAIN passed' = Limits!Keys \cup {"reads", "exchange"}
    BY <1>3, <1>4
  <2>2. \A k \in Limits!Keys \cup {"reads", "exchange"} : passed'[k] \in [0..LastTick -> Nat]
    BY <1>4, <1>6, LimitTypes DEF Counts, Ticks
  <2>3. passed' = [k \in DOMAIN passed' |-> passed'[k]]
    BY <1>3
  <2> QED
    BY <2>1, <2>2, <2>3
<1>10. Limits!TypeOK'
  BY <1>7, <1>8, <1>9 DEF Limits!TypeOK
<1>11. LimitsHeld'
  BY <1>4, <1>6, <1>7 DEF LimitsHeld
<1> QED
  BY <1>10, <1>11

\* The entries of windows that are long over are dropped.
LEMMA CleanupStep ==
  ASSUME Limits!TypeOK, LimitsHeld, Limits!Cleanup
  PROVE  Limits!TypeOK' /\ LimitsHeld'
<1>1. /\ windows' = [k \in Limits!Keys |->
                       IF now - windows[k].start > 2 * Window THEN Limits!NoEntry ELSE windows[k]]
      /\ UNCHANGED <<limiter, now, tokenBucket, stamps, passed>>
  BY DEF Limits!Cleanup
<1>2. ASSUME NEW k \in Limits!Keys
      PROVE  /\ windows'[k] \in [count : 0..UserMax, start : 0..LastTick]
             /\ FixedWindow(passed[k], windows'[k], now, Limits!MaxOf[k])
  <2>1. Limits!NoEntry \in [count : 0..UserMax, start : 0..LastTick]
    BY RateAssumption DEF Limits!NoEntry
  <2>2. CASE now - windows[k].start > 2 * Window
    <3>1. windows'[k] = Limits!NoEntry
      BY <1>1, <2>2
    <3>2. FixedWindow(passed[k], Limits!NoEntry, now, Limits!MaxOf[k])
      BY <2>2, LimitTypes, WindowForgets DEF LimitsHeld
    <3> QED
      BY <2>1, <3>1, <3>2
  <2>3. CASE ~ (now - windows[k].start > 2 * Window)
    BY <1>1, <2>3 DEF LimitsHeld, Limits!TypeOK
  <2> QED
    BY <2>2, <2>3
<1> QED
  BY <1>1, <1>2 DEF Limits!TypeOK, LimitsHeld

\* A table of counts, one of which has grown, is a table of counts.
LEMMA OneMoreTyped ==
  ASSUME NEW K, NEW T, NEW p \in [K -> [T -> Nat]], NEW k \in K, NEW t \in T
  PROVE  [p EXCEPT ![k][t] = @ + 1] \in [K -> [T -> Nat]]
OBVIOUS

\* The market is read, or the bucket has no token.
LEMMA ReadStep ==
  ASSUME Limits!TypeOK, LimitsHeld, Limits!ReadMarket
  PROVE  Limits!TypeOK' /\ LimitsHeld'
<1> DEFINE elapsed == tokenBucket.parts + (now - tokenBucket.at)
           parts == Limits!Min({Full, elapsed})
<1>1. /\ tokenBucket' = [parts |-> IF parts >= TokenTicks THEN parts - TokenTicks ELSE parts,
                         at |-> now]
      /\ passed' = IF parts >= TokenTicks THEN [passed EXCEPT !.reads[now] = @ + 1] ELSE passed
      /\ UNCHANGED <<limiter, now, windows, stamps>>
  BY DEF Limits!ReadMarket, Full
<1>2. elapsed \in Nat /\ Full \in Nat
  <2>1. tokenBucket.parts \in Nat /\ tokenBucket.at \in Ticks /\ now \in Nat
    BY LimitTypes
  <2>2. tokenBucket.at \in Nat
    BY <2>1 DEF Ticks
  <2>3. tokenBucket.at <= now
    BY DEF LimitsHeld
  <2>4. Full \in Nat
    BY TokenCost
  <2> QED
    BY <2>1, <2>2, <2>3, <2>4
<1>3. parts \in Nat /\ parts <= Full /\ parts <= elapsed
  <2> HIDE DEF elapsed
  <2>1. parts = CHOOSE x \in {Full, elapsed} : \A y \in {Full, elapsed} : x <= y
    BY DEF Limits!Min
  <2>2. \E x \in {Full, elapsed} : \A y \in {Full, elapsed} : x <= y
    BY <1>2
  <2>3. parts \in {Full, elapsed} /\ \A y \in {Full, elapsed} : parts <= y
    BY <2>1, <2>2
  <2> QED
    BY <1>2, <2>3
<1> HIDE DEF parts
<1>4. Metered(passed["reads"], parts, now)
  BY <1>3, LimitTypes, BucketRefills DEF LimitsHeld
<1>9. /\ passed \in [Limits!Keys \cup {"reads", "exchange"} -> [0..LastTick -> Nat]]
      /\ now \in 0..LastTick
  BY DEF Limits!TypeOK
<1>5. CASE parts >= TokenTicks
  <2>1. /\ passed' = [passed EXCEPT !.reads[now] = @ + 1]
        /\ tokenBucket' = [parts |-> parts - TokenTicks, at |-> now]
    BY <1>1, <1>5
  <2>2. "reads" \in DOMAIN passed /\ now \in Ticks /\ passed["reads"] \in Counts
    BY LimitTypes DEF Limits!TypeOK
  <2>3. passed'["reads"] = [passed["reads"] EXCEPT ![now] = @ + 1]
    BY <2>1, <2>2
  <2>4. OneMore(passed["reads"], now, passed'["reads"])
    BY <2>2, <2>3 DEF OneMore, Counts
  <2>5. parts - TokenTicks \in Nat
    BY <1>3, <1>5, RateAssumption
  <2>6. Metered(passed'["reads"], parts - TokenTicks, now)
    BY <1>3, <1>4, <1>5, <2>2, <2>4, <2>5, BucketGives DEF OneMore
  <2>7. (\A k \in Limits!Keys : passed'[k] = passed[k]) /\ passed'["exchange"] = passed["exchange"]
    BY <2>1 DEF Limits!TypeOK, Limits!Keys
  <2>8. parts - TokenTicks \in 0..Full
    BY <1>2, <1>3, <2>5, RateAssumption
  <2>9. passed' \in [Limits!Keys \cup {"reads", "exchange"} -> [0..LastTick -> Nat]]
    BY <2>1, <1>9, OneMoreTyped DEF Ticks
  <2>10. tokenBucket' \in [parts : 0..Full, at : 0..LastTick]
    BY <2>1, <2>2, <2>8 DEF Ticks
  <2>11. Limits!TypeOK'
    BY <1>1, <2>9, <2>10 DEF Limits!TypeOK, Full
  <2>12. LimitsHeld'
    <3>1. tokenBucket'.parts = parts - TokenTicks /\ tokenBucket'.at = now /\ now' = now /\ now <= now
      BY <1>1, <2>1, LimitTypes
    <3> QED
      BY <1>1, <2>6, <2>7, <3>1 DEF LimitsHeld
  <2> QED
    BY <2>11, <2>12
<1>6. CASE ~ (parts >= TokenTicks)
  <2>1. passed' = passed /\ tokenBucket' = [parts |-> parts, at |-> now]
    BY <1>1, <1>6
  <2>2. tokenBucket' \in [parts : 0..Full, at : 0..LastTick]
    BY <1>2, <1>3, <2>1, LimitTypes DEF Ticks
  <2>3. Limits!TypeOK'
    BY <1>1, <2>1, <2>2 DEF Limits!TypeOK, Full
  <2>4. LimitsHeld'
    <3>1. tokenBucket'.parts = parts /\ tokenBucket'.at = now /\ now' = now /\ now <= now
      BY <1>1, <2>1, LimitTypes
    <3> QED
      BY <1>1, <1>4, <2>1, <3>1 DEF LimitsHeld
  <2> QED
    BY <2>3, <2>4
<1> QED
  BY <1>5, <1>6

\* The exchange is called, or has been called too often.
LEMMA ExchangeStep ==
  ASSUME Limits!TypeOK, LimitsHeld, Limits!CallExchange
  PROVE  Limits!TypeOK' /\ LimitsHeld'
<1>1. PICK n \in 0..Len(stamps) :
        LET recent == SubSeq(stamps, n + 1, Len(stamps)) IN
        /\ \A i \in 1..n : stamps[i] + Window < now
        /\ IF Len(recent) >= ExchangeMax
           THEN stamps' = recent /\ UNCHANGED passed
           ELSE /\ stamps' = Append(recent, now)
                /\ passed' = [passed EXCEPT !.exchange[now] = @ + 1]
  BY DEF Limits!CallExchange
<1> DEFINE recent == SubSeq(stamps, n + 1, Len(stamps))
<1>2. UNCHANGED <<limiter, now, windows, tokenBucket>>
  BY DEF Limits!CallExchange
<1>3. /\ stamps \in Seq(Ticks) /\ Len(stamps) <= ExchangeMax /\ Len(stamps) \in Nat
      /\ now \in Ticks /\ passed["exchange"] \in Counts /\ "exchange" \in DOMAIN passed
  BY LimitTypes DEF Limits!TypeOK
<1>4. recent \in Seq(Ticks) /\ Len(recent) = Len(stamps) - n
      /\ \A i \in 1..Len(recent) : recent[i] = stamps[n + i]
  <2>1. n + 1 \in Int /\ Len(stamps) \in Int /\ \A i \in (n + 1)..Len(stamps) : stamps[i] \in Ticks
    BY <1>3
  <2>2. /\ recent \in Seq(Ticks)
        /\ Len(recent) = IF n + 1 <= Len(stamps) THEN Len(stamps) - (n + 1) + 1 ELSE 0
        /\ \A i \in 1..(Len(stamps) - (n + 1) + 1) : recent[i] = stamps[(n + 1) + i - 1]
    BY <2>1, SubSeqProperties
  <2> HIDE DEF recent
  <2>3. Len(recent) = Len(stamps) - n
    BY <1>3, <2>2
  <2>4. \A i \in 1..Len(recent) : i \in 1..(Len(stamps) - (n + 1) + 1) /\ (n + 1) + i - 1 = n + i
    BY <1>3, <2>3
  <2> QED
    BY <2>2, <2>3, <2>4
<1> HIDE DEF recent
<1>5. /\ \A i \in 1..n : stamps[i] + Window < now
      /\ IF Len(recent) >= ExchangeMax
         THEN stamps' = recent /\ UNCHANGED passed
         ELSE /\ stamps' = Append(recent, now)
              /\ passed' = [passed EXCEPT !.exchange[now] = @ + 1]
  BY <1>1 DEF recent
<1>6. Stamped(passed["exchange"], recent, now)
  BY <1>3, <1>4, <1>5, StampsShift DEF LimitsHeld
<1>9. /\ passed \in [Limits!Keys \cup {"reads", "exchange"} -> [0..LastTick -> Nat]]
      /\ now \in 0..LastTick
  BY DEF Limits!TypeOK
<1>7. CASE Len(recent) >= ExchangeMax
  <2>1. stamps' = recent /\ passed' = passed /\ Len(recent) <= ExchangeMax
    BY <1>3, <1>4, <1>5, <1>7, RateAssumption
  <2> QED
    BY <1>2, <1>4, <1>6, <2>1 DEF Limits!TypeOK, LimitsHeld, Ticks
<1>8. CASE ~ (Len(recent) >= ExchangeMax)
  <2>1. /\ stamps' = Append(recent, now)
        /\ passed' = [passed EXCEPT !.exchange[now] = @ + 1]
    BY <1>5, <1>8
  <2>2. Len(recent) < ExchangeMax /\ Len(recent) \in Nat
    BY <1>3, <1>4, <1>8, RateAssumption
  <2>3. stamps' \in Seq(Ticks) /\ Len(stamps') <= ExchangeMax
    BY <1>3, <1>4, <2>1, <2>2, RateAssumption
  <2>4. passed'["exchange"] = [passed["exchange"] EXCEPT ![now] = @ + 1]
    BY <1>3, <2>1
  <2>5. OneMore(passed["exchange"], now, passed'["exchange"])
    BY <1>3, <2>4 DEF OneMore, Counts
  <2>6. Stamped(passed'["exchange"], stamps', now)
    BY <1>3, <1>4, <1>6, <2>1, <2>2, <2>3, <2>5, StampsAdd DEF OneMore
  <2>7. (\A k \in Limits!Keys : passed'[k] = passed[k]) /\ passed'["reads"] = passed["reads"]
    BY <2>1 DEF Limits!TypeOK, Limits!Keys
  <2>8. passed' \in [Limits!Keys \cup {"reads", "exchange"} -> [0..LastTick -> Nat]]
    BY <2>1, <1>9, OneMoreTyped DEF Ticks
  <2>9. Limits!TypeOK'
    BY <1>2, <2>3, <2>8 DEF Limits!TypeOK, Ticks
  <2>10. LimitsHeld'
    BY <1>2, <2>6, <2>7 DEF LimitsHeld
  <2> QED
    BY <2>9, <2>10
<1> QED
  BY <1>7, <1>8

\* Time passes.
LEMMA TickStep ==
  ASSUME Limits!TypeOK, LimitsHeld, Limits!Tick
  PROVE  Limits!TypeOK' /\ LimitsHeld'
<1>1. now < LastTick /\ now' = now + 1 /\ UNCHANGED <<limiter, windows, tokenBucket, stamps, passed>>
  BY DEF Limits!Tick
<1>2. now + 1 \in Ticks /\ now \in Ticks /\ now \in Nat
  BY <1>1, LimitTypes DEF Ticks
<1>3. Limits!TypeOK'
  BY <1>1, <1>2 DEF Limits!TypeOK, Ticks
<1>4. \A k \in Limits!Keys : FixedWindow(passed[k], windows[k], now + 1, Limits!MaxOf[k])
  BY <1>2, LimitTypes, WindowTicks DEF LimitsHeld
<1>5. Stamped(passed["exchange"], stamps, now + 1)
  BY <1>2, LimitTypes, StampsInitAndTick DEF LimitsHeld
<1>6. tokenBucket.at <= now + 1
  BY <1>2, LimitTypes DEF LimitsHeld, Ticks
<1> QED
  BY <1>1, <1>3, <1>4, <1>5, <1>6 DEF LimitsHeld

\* Each step keeps the types, and what is kept telling.
LEMMA LimitsStep ==
  ASSUME Limits!TypeOK, LimitsHeld, Limits!Next \/ UNCHANGED Limits!limitVars
  PROVE  Limits!TypeOK' /\ LimitsHeld'
<1>1. CASE UNCHANGED Limits!limitVars
  BY <1>1 DEF Limits!limitVars, Limits!TypeOK, LimitsHeld
<1> QED
  BY <1>1, ProcedureStep, CleanupStep, ReadStep, ExchangeStep, TickStep DEF Limits!Next

\* What is kept bounds what was let through.
LEMMA LimitsBound == ASSUME Limits!TypeOK, LimitsHeld PROVE LimitsHold
<1> SUFFICES ASSUME NEW s \in Ticks, NEW t \in Ticks, s <= t
             PROVE  /\ t - s <= Window =>
                         /\ Limits!Between("user", s, t) <= 2 * UserMax
                         /\ Limits!Between("sensitive", s, t) <= 2 * SensitiveMax
                         /\ Limits!Between("exchange", s, t) <= ExchangeMax
                    /\ TokenTicks * Limits!Between("reads", s, t)
                         <= TokenTicks * Capacity + (t - s)
  BY DEF LimitsHold, Ticks
<1>1. Capacity * TokenTicks = TokenTicks * Capacity
  BY RateAssumption
<1>2. Limits!MaxOf["user"] = UserMax /\ Limits!MaxOf["sensitive"] = SensitiveMax
      /\ "user" \in Limits!Keys /\ "sensitive" \in Limits!Keys
  BY DEF Limits!MaxOf, Limits!Keys
<1>3. TokenTicks * Within(passed["reads"], s, t) <= Full + (t - s)
  BY DEF LimitsHeld, Metered
<1>4. t - s <= Window =>
        /\ Within(passed["user"], s, t) <= 2 * UserMax
        /\ Within(passed["sensitive"], s, t) <= 2 * SensitiveMax
  BY <1>2 DEF LimitsHeld, FixedWindow
<1>5. t - s <= Window => Within(passed["exchange"], s, t) <= ExchangeMax
  BY DEF LimitsHeld, Stamped
<1> QED
  BY <1>1, <1>3, <1>4, <1>5, BetweenIsWithin DEF Full

=============================================================================
