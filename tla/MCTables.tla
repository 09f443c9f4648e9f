------------------------------ MODULE MCTables ------------------------------
(***************************************************************************)
(* The tables that handlers share with nothing between their statements:   *)
(* the tokens, the cache, the stored responses with their conversations.   *)
(* None of them reads another: a behaviour is of one, and the others stay  *)
(* as they began.                                                          *)
(***************************************************************************)
EXTENDS ResponseCache, TokenParameters

CONSTANTS
    Bearers, Admins,                            \* AuthTokens
    Ids, NoId, Conversations, NoConversation    \* ConversationChain

VARIABLES
    part,
    tok, issued, tokenReq, adm, served,
    stored, conv, drawn, chainReq

Tokens == INSTANCE AuthTokens WITH Requests <- Bearers, req <- tokenReq
Chain == INSTANCE ConversationChain WITH req <- chainReq, issued <- drawn

tokenVars == <<tok, issued, tokenReq, adm, served>>
chainVars == <<stored, conv, drawn, chainReq>>
allVars == <<part, vars, tokenVars, chainVars>>

InitTables ==
    /\ part \in {"cache", "tokens", "chain"}
    /\ Init /\ Tokens!Init /\ Chain!Init
    /\ part # "cache" => maxBytes = CHOOSE s \in Sizes : TRUE

NextTables ==
    \/ part = "cache" /\ Next /\ UNCHANGED <<part, tokenVars, chainVars>>
    \/ part = "tokens" /\ Tokens!Next /\ UNCHANGED <<part, vars, chainVars>>
    \/ part = "chain" /\ Chain!Next /\ UNCHANGED <<part, vars, tokenVars>>

SpecTables == InitTables /\ [][NextTables]_allVars

----------------------------------------------------------------------------
(* Every variable of the three modules has its type.                       *)
TablesTypeOK == TypeOK /\ Tokens!TypeOK /\ Chain!TypeOK

(* AuthTokens: the counter is exact, and no limit is exceeded.             *)
QuotaHolds == Tokens!QuotaHolds

(* AuthTokens: a revoked token stays revoked, and with a limit it admits   *)
(* nobody.                                                                 *)
RevocationHolds == Tokens!RevocationHolds

(* AuthTokens: only a revoked row is deleted.                              *)
DeletedAfterRevoked == Tokens!DeletedAfterRevoked

(* AuthTokens: admission, delete and rotation are as good as atomic.       *)
ImplementsLedger == Tokens!ImplementsLedger

(* ConversationChain: a conversation lists stored responses, each once.    *)
ListsStoredResponses == Chain!ListsStoredResponses

(* ConversationChain: only the collector takes an id out of a list.        *)
LiveStaysListed == Chain!LiveStaysListed
============================================================================
