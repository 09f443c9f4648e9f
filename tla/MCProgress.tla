----------------------------- MODULE MCProgress -----------------------------
(***************************************************************************)
(* What must go on: the requests that retry, the keys that sit out a       *)
(* cooldown and the tables that are collected, each under the fairness of  *)
(* its own goroutines.  The three share no state: a behaviour is of one,   *)
(* and the others stay as they began.                                      *)
(***************************************************************************)
EXTENDS ConversationChain, TLC

CONSTANTS
    r1, r2,
    KeyIds, NoKey, ConfigKeys, ConfigDisabled, RouteOf, Admins,     \* KeyPool
    FailoverEnabled, MaxRetries, CoolDown, TicksPerSecond,
    Endpoints, Words, Ignored, Readers, NoAnswer, TTL, Sizes,       \* ResponseCache
    Enabled, MaxAnswers, MaxHits

ConvertedAndResponses == r1 :> "converted" @@ r2 :> "responses"

VARIABLES
    part,
    db, mem, clock, poolReq, adm, unsynced,
    cache, maxBytes, cacheReq, asked, flushed

Pool == INSTANCE KeyPool WITH req <- poolReq, phase <- clock
Cache == INSTANCE ResponseCache WITH
    req <- cacheReq, Requests <- Readers, Routes <- Endpoints

poolVars == <<db, mem, clock, poolReq, adm, unsynced>>
cacheVars == <<cache, maxBytes, cacheReq, asked, flushed>>
allVars == <<part, vars, poolVars, cacheVars>>

InitProgress ==
    /\ part \in {"pool", "chain", "cache"}
    /\ Init /\ Pool!Init /\ Cache!Init
    /\ part # "cache" => maxBytes = CHOOSE s \in Sizes : TRUE

OfChain(A) == part = "chain" /\ A /\ UNCHANGED <<part, poolVars, cacheVars>>
OfPool(A) == part = "pool" /\ A /\ UNCHANGED <<part, vars, cacheVars>>
OfCache(A) == part = "cache" /\ A /\ UNCHANGED <<part, vars, poolVars>>

NextProgress == OfChain(Next) \/ OfPool(Pool!Next) \/ OfCache(Cache!Next)

(* What the tickers and the clock of each do.                              *)
Ticking == OfChain(ResponseStateGC) \/ OfPool(Pool!Tick) \/ OfCache(Cache!GC)

(* The fairness of the three specifications; "part" never changes.         *)
SpecProgress ==
    /\ InitProgress /\ [][NextProgress]_allVars
    /\ WF_allVars(Ticking)
    /\ \A r \in Requests : WF_allVars(OfPool(Pool!RequestStep(r)))

----------------------------------------------------------------------------
(* KeyPool: every request ends, however its calls go.                      *)
RequestsEnd == Pool!RequestsEnd

(* KeyPool: every key is out of its cooldown again and again.              *)
KeysReturn == Pool!KeysReturn

(* ResponseCache: no row stays expired.                                    *)
ExpiredRowsDropped == Cache!ExpiredRowsDropped
============================================================================
