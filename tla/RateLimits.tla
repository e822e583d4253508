----------------------------- MODULE RateLimits -----------------------------
(***************************************************************************)
(* The three limiters of the server, each over the same clock: the windows *)
(* of the procedures (server/security.ts, server/_core/trpc.ts), the token *)
(* bucket of public reads (server/liveData.ts) and the timestamps of calls *)
(* to the exchange (server/binance.ts).  The clock is that of the process  *)
(* and does not go back.                                                   *)
(***************************************************************************)
EXTENDS Naturals, Sequences, FiniteSetsExt, Functions

CONSTANTS
  Window,        \* ticks of the windows of the procedures and the exchange
  UserMax, SensitiveMax, ExchangeMax,  \* requests in a window
  Capacity,      \* tokens of the bucket
  TokenTicks,    \* ticks in which a token is refilled
  LastTick       \* bound: time that passes

VARIABLES
  limiter,      \* the limiter under load
  now,
  windows,      \* rateLimitStore: entries of the owner and of one sensitive path
  tokenBucket,  \* tokens, in parts a tick refills, and when they were counted
  stamps,       \* requestTimestamps
  passed        \* what each limiter has let through at each tick

limitVars == <<limiter, now, windows, tokenBucket, stamps, passed>>

Limiters == {"procedures", "reads", "exchange"}
Keys == {"user", "sensitive"}
NoEntry == [count |-> 0, start |-> 0]
MaxOf == [user |-> UserMax, sensitive |-> SensitiveMax]

TypeOK ==
  /\ limiter \in Limiters
  /\ now \in 0..LastTick
  /\ windows \in [Keys -> [count : 0..UserMax, start : 0..LastTick]]
  /\ tokenBucket \in [parts : 0..(Capacity * TokenTicks), at : 0..LastTick]
  /\ stamps \in Seq(0..LastTick) /\ Len(stamps) <= ExchangeMax
  /\ passed \in [Keys \cup {"reads", "exchange"} -> [0..LastTick -> Nat]]

Init ==
  /\ limiter \in Limiters
  /\ now = 0
  /\ windows = [k \in Keys |-> NoEntry]
  /\ tokenBucket = [parts |-> Capacity * TokenTicks, at |-> 0]
  /\ stamps = <<>>
  /\ passed = [k \in Keys \cup {"reads", "exchange"} |-> [t \in 0..LastTick |-> 0]]

-----------------------------------------------------------------------------

Tick ==
  /\ now < LastTick
  /\ now' = now + 1
  /\ UNCHANGED <<limiter, windows, tokenBucket, stamps, passed>>

IsNew(e) == e = NoEntry \/ now - e.start > Window

\* Mutant: the count may pass the maximum by one.
AdmitsOneMore(k) == IsNew(windows[k]) \/ windows[k].count <= MaxOf[k]

\* checkRateLimit
Admits(k) == IsNew(windows[k]) \/ windows[k].count < MaxOf[k]

Counted(k) ==
  IF IsNew(windows[k]) THEN [count |-> 1, start |-> now]
  ELSE [windows[k] EXCEPT !.count = @ + 1]

\* The keys a procedure is counted under: a sensitive one under the owner's
\* first, and under its path only when that let it through.
Passing(sensitive) ==
  IF ~Admits("user") THEN {}
  ELSE IF sensitive /\ Admits("sensitive") THEN Keys ELSE {"user"}

CallProcedure ==
  /\ limiter = "procedures"
  /\ \E sensitive \in BOOLEAN :
       LET through == Passing(sensitive) IN
       /\ windows' = [k \in Keys |-> IF k \in through THEN Counted(k) ELSE windows[k]]
       /\ passed' = [k \in DOMAIN passed |->
                       IF k \in through THEN [passed[k] EXCEPT ![now] = @ + 1] ELSE passed[k]]
  /\ UNCHANGED <<limiter, now, tokenBucket, stamps>>

\* cleanupRateLimits, every minute
Cleanup ==
  /\ limiter = "procedures"
  /\ windows' = [k \in Keys |->
                   IF now - windows[k].start > 2 * Window THEN NoEntry ELSE windows[k]]
  /\ UNCHANGED <<limiter, now, tokenBucket, stamps, passed>>

\* tryTakeToken: the bucket is refilled for the time since it was last counted.
ReadMarket ==
  /\ limiter = "reads"
  /\ LET parts == Min({Capacity * TokenTicks, tokenBucket.parts + (now - tokenBucket.at)})
         takes == parts >= TokenTicks IN
     /\ tokenBucket' = [parts |-> IF takes THEN parts - TokenTicks ELSE parts, at |-> now]
     /\ passed' = IF takes THEN [passed EXCEPT !.reads[now] = @ + 1] ELSE passed
  /\ UNCHANGED <<limiter, now, windows, stamps>>

\* checkRateLimit of binance.ts: the stamps from before the window are shifted
\* out, up to the first that is not.
CallExchange ==
  /\ limiter = "exchange"
  /\ \E n \in 0..Len(stamps) :
       LET recent == SubSeq(stamps, n + 1, Len(stamps)) IN
       /\ \A i \in 1..n : stamps[i] + Window < now
       /\ n < Len(stamps) => stamps[n + 1] + Window >= now
       /\ IF Len(recent) >= ExchangeMax
          THEN stamps' = recent /\ UNCHANGED passed
          ELSE /\ stamps' = Append(recent, now)
               /\ passed' = [passed EXCEPT !.exchange[now] = @ + 1]
  /\ UNCHANGED <<limiter, now, windows, tokenBucket>>

Next == Tick \/ CallProcedure \/ Cleanup \/ ReadMarket \/ CallExchange

-----------------------------------------------------------------------------

\* What passed from tick s to tick t.
Between(k, s, t) == SumFunctionOnSet(passed[k], s..t)

=============================================================================
