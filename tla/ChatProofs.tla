----------------------------- MODULE ChatProofs -----------------------------
(***************************************************************************)
(* Conversations as whole messages, of any length.  ConvertedChat: what    *)
(* one conversion does to an answer, the other takes back.  HistoryReplay: *)
(* what becomes of an earlier answer when it is put in front of an input.  *)
(***************************************************************************)
EXTENDS MCRequestPath, SequenceFacts

(* ConvertedChat.  What its messages are made of: ids of calls, blocks of  *)
(* an Anthropic client, messages of either format.                         *)
Ids == Nat \X Nat
TextBlock == [type: {"text"}, text: Nat]
ResultBlock == [type: {"tool_result"}, call: Ids]
UseBlock == [type: {"tool_use"}, call: Ids, input: Chat!Inputs]
Block == TextBlock \cup ResultBlock \cup UseBlock
BlockMessage == [role: {"user", "assistant"}, blocks: Seq(Block)]

CallRecord == [id: Ids, args: Chat!Args]
Result == [role: {"tool"}, call: Ids]
Spoken == [role: {"user", "assistant"}, text: Seq(Nat)]
Called == [role: {"assistant"}, text: Seq(Nat), calls: Seq(CallRecord)]
PlainMessage == Result \cup Spoken \cup Called

(* Of a block: its text, its result, its call.                             *)
OfText == [b \in Block |-> IF b.type = "text" THEN <<b.text>> ELSE <<>>]
OfResult == [b \in Block |-> IF b.type = "tool_result" THEN <<[role |-> "tool", call |-> b.call]>>
                             ELSE <<>>]
OfUse == [b \in Block |-> IF b.type = "tool_use"
                            THEN <<[id |-> b.call, args |-> Chat!ArgsOf(b.input)]>> ELSE <<>>]

LEMMA Flattened == \A s : Chat!FlattenSeq(s) = FlattenSeq(s)
BY Zenon DEF Chat!FlattenSeq, FlattenSeq

LEMMA OfTypes ==
    /\ OfText \in [Block -> Seq(Nat)]
    /\ OfResult \in [Block -> Seq(Result)]
    /\ OfUse \in [Block -> Seq(CallRecord)]
<1>1. ASSUME NEW b \in Block
      PROVE  /\ b.type = "text" => b.text \in Nat
             /\ b.type = "tool_result" => b.call \in Ids
             /\ b.type = "tool_use" => b.call \in Ids /\ b.input \in Chat!Inputs
  BY DEF Block, TextBlock, ResultBlock, UseBlock
<1>2. ASSUME NEW b \in Block PROVE OfText[b] \in Seq(Nat)
  BY <1>1, EmptySeq DEF OfText
<1>3. ASSUME NEW b \in Block PROVE OfResult[b] \in Seq(Result)
  <2>1. CASE b.type = "tool_result"
    <3>1. [role |-> "tool", call |-> b.call] \in Result
      BY <1>1, <2>1 DEF Result
    <3>2. QED
      BY <2>1, <3>1 DEF OfResult
  <2>2. CASE b.type # "tool_result"
    BY <2>2, EmptySeq DEF OfResult
  <2>3. QED
    BY <2>1, <2>2
<1>4. ASSUME NEW b \in Block PROVE OfUse[b] \in Seq(CallRecord)
  <2>1. CASE b.type = "tool_use"
    <3>1. [id |-> b.call, args |-> Chat!ArgsOf(b.input)] \in CallRecord
      BY <1>1, <2>1 DEF CallRecord, Chat!Args, Chat!ArgsOf
    <3>2. QED
      BY <2>1, <3>1 DEF OfUse
  <2>2. CASE b.type # "tool_use"
    BY <2>2, EmptySeq DEF OfUse
  <2>3. QED
    BY <2>1, <2>2
<1>5. QED
  BY <1>2, <1>3, <1>4 DEF OfText, OfResult, OfUse

LEMMA BlocksMapped ==
    ASSUME NEW s \in Seq(Block)
    PROVE  /\ Chat!TextsOf(s) = Mapped(s, OfText) /\ Chat!TextsOf(s) \in Seq(Nat)
           /\ Chat!ResultsOf(s) = Mapped(s, OfResult) /\ Chat!ResultsOf(s) \in Seq(Result)
           /\ Chat!CallsIn(s) = Mapped(s, OfUse) /\ Chat!CallsIn(s) \in Seq(CallRecord)
<1>1. \A i \in DOMAIN s : s[i] \in Block
  BY ElementOfSeq, LenProperties
<1>2. [i \in DOMAIN s |-> IF s[i].type = "text" THEN <<s[i].text>> ELSE <<>>]
        = [i \in DOMAIN s |-> OfText[s[i]]]
  BY <1>1 DEF OfText
<1>3. [i \in DOMAIN s |-> IF s[i].type = "tool_result" THEN <<[role |-> "tool", call |-> s[i].call]>>
                          ELSE <<>>]
        = [i \in DOMAIN s |-> OfResult[s[i]]]
  BY <1>1 DEF OfResult
<1>4. [i \in DOMAIN s |-> IF s[i].type = "tool_use"
                            THEN <<[id |-> s[i].call, args |-> Chat!ArgsOf(s[i].input)]>> ELSE <<>>]
        = [i \in DOMAIN s |-> OfUse[s[i]]]
  BY <1>1 DEF OfUse
<1>5. /\ Chat!TextsOf(s) = Mapped(s, OfText)
      /\ Chat!ResultsOf(s) = Mapped(s, OfResult)
      /\ Chat!CallsIn(s) = Mapped(s, OfUse)
  BY <1>2, <1>3, <1>4, Flattened, Zenon
     DEF Chat!TextsOf, Chat!ResultsOf, Chat!CallsIn, Chat!Collected, Chat!Mapped, Mapped
<1>6. Mapped(s, OfText) \in Seq(Nat)
  BY OfTypes, MappedType
<1>7. Mapped(s, OfResult) \in Seq(Result)
  BY OfTypes, MappedType
<1>8. Mapped(s, OfUse) \in Seq(CallRecord)
  BY OfTypes, MappedType
<1>9. QED
  BY <1>5, <1>6, <1>7, <1>8

(* Who said what, of a message.                                            *)
Say == [m \in PlainMessage |-> IF m.role = "tool" THEN <<>>
                               ELSE [j \in DOMAIN m.text |-> <<m.role, m.text[j]>>]]
Saying == {"user", "assistant"} \X Nat

LEMMA SayType == Say \in [PlainMessage -> Seq(Saying)]
<1>1. ASSUME NEW m \in PlainMessage PROVE Say[m] \in Seq(Saying)
  <2>1. CASE m.role = "tool"
    BY <2>1, EmptySeq DEF Say
  <2>2. CASE m.role # "tool"
    <3>1. m.role \in {"user", "assistant"} /\ m.text \in Seq(Nat)
      BY <2>2 DEF PlainMessage, Result, Spoken, Called
    <3> DEFINE t == m.text
               r == m.role
               f == [j \in DOMAIN t |-> <<r, t[j]>>]
    <3>2. t \in Seq(Nat) /\ r \in {"user", "assistant"}
      BY <3>1
    <3>3. Say[m] = f
      BY <2>2 DEF Say
    <3> HIDE DEF t, r
    <3>4. \A j \in DOMAIN t : t[j] \in Nat
      BY <3>2, ElementOfSeq, LenProperties
    <3>5. f \in [DOMAIN t -> Saying]
      BY <3>2, <3>4 DEF Saying
    <3> HIDE DEF f
    <3>6. f \in Seq(Saying)
      BY <3>2, <3>5, SameLength
    <3>7. QED
      BY <3>3, <3>6
  <2>3. QED
    BY <2>1, <2>2
<1>2. QED
  BY <1>1 DEF Say

LEMMA SaidMapped ==
    ASSUME NEW ms \in Seq(PlainMessage)
    PROVE  Chat!Said(ms) = Mapped(ms, Say)
<1>1. \A i \in DOMAIN ms : ms[i] \in PlainMessage
  BY ElementOfSeq, LenProperties
<1>2. [i \in DOMAIN ms |-> IF ms[i].role = "tool" THEN <<>>
                           ELSE [j \in DOMAIN ms[i].text |-> <<ms[i].role, ms[i].text[j]>>]]
        = [i \in DOMAIN ms |-> Say[ms[i]]]
  BY <1>1 DEF Say
<1>3. QED
  BY <1>2, Flattened, Zenon DEF Chat!Said, Chat!Collected, Chat!Mapped, Mapped

(* What the converted messages say is what each of them says.              *)
LEMMA SaidOfConverted ==
    ASSUME NEW n \in Nat, NEW B \in [1..n -> Seq(PlainMessage)]
    PROVE  /\ FlattenSeq(B) \in Seq(PlainMessage)
           /\ Chat!Said(FlattenSeq(B)) = FlattenSeq([i \in 1..n |-> Mapped(B[i], Say)])
<1>1. B \in Seq(Seq(PlainMessage)) /\ Len(B) = n
  BY SeqDef, LenProperties
<1>2. FlattenSeq(B) \in Seq(PlainMessage)
  BY <1>1, FlattenType
<1>3. Mapped(FlattenSeq(B), Say) = FlattenSeq([i \in 1..n |-> Mapped(B[i], Say)])
  BY <1>1, SayType, MappedFlattened
<1>4. QED
  BY <1>2, <1>3, SaidMapped

Voiced(role, texts) == [j \in DOMAIN texts |-> <<role, texts[j]>>]

LEMMA NothingVoiced == \A role : Voiced(role, <<>>) = <<>>
<1>1. ASSUME NEW role PROVE Voiced(role, <<>>) = <<>>
  <2>1. Voiced(role, <<>>) \in [DOMAIN <<>> -> {}] /\ <<>> \in Seq({}) /\ Len(<<>>) = 0
    BY EmptySeq DEF Voiced
  <2>2. Voiced(role, <<>>) \in Seq({}) /\ Len(Voiced(role, <<>>)) = 0
    BY <2>1, SameLength
  <2>3. QED
    BY <2>2, EmptySeq
<1>2. QED
  BY <1>1

(* A message of an Anthropic client, as it is converted.                   *)
Converted(m) == IF m.role = "user" THEN Chat!UserToOpenAI(m) ELSE <<Chat!AssistantToOpenAI(m)>>

LEMMA AssistantConverted ==
    ASSUME NEW m \in BlockMessage, m.role = "assistant"
    PROVE  /\ Converted(m) = <<[role |-> "assistant", text |-> Chat!TextsOf(m.blocks),
                                calls |-> Chat!CallsIn(m.blocks)]>>
           /\ Converted(m) \in Seq(PlainMessage)
           /\ Mapped(Converted(m), Say) = Voiced("assistant", Chat!TextsOf(m.blocks))
<1> DEFINE t == Chat!TextsOf(m.blocks)
           c == Chat!CallsIn(m.blocks)
           x == [role |-> "assistant", text |-> t, calls |-> c]
<1>1. m.blocks \in Seq(Block)
  BY DEF BlockMessage
<1>2. t \in Seq(Nat) /\ c \in Seq(CallRecord)
  BY <1>1, BlocksMapped
<1>3. Converted(m) = <<x>>
  BY DEF Converted, Chat!AssistantToOpenAI
<1> HIDE DEF t, c
<1>4. x \in PlainMessage /\ x.role = "assistant" /\ x.text = t
  BY <1>2 DEF PlainMessage, Called
<1>5. Say[x] = Voiced("assistant", t)
  BY <1>4 DEF Say, Voiced
<1> HIDE DEF x
<1>6. Mapped(<<x>>, Say) = Say[x]
  BY <1>4, SayType, MappedOne
<1>7. <<x>> \in Seq(PlainMessage)
  BY <1>4
<1>8. QED
  BY <1>3, <1>5, <1>6, <1>7 DEF t, c, x

LEMMA UserConverted ==
    ASSUME NEW m \in BlockMessage, m.role = "user"
    PROVE  /\ Converted(m) = Cat(IF Chat!TextsOf(m.blocks) = <<>> THEN <<>>
                                 ELSE <<[role |-> "user", text |-> Chat!TextsOf(m.blocks)]>>,
                                 Chat!ResultsOf(m.blocks))
           /\ Converted(m) \in Seq(PlainMessage)
           /\ Mapped(Converted(m), Say) = Voiced("user", Chat!TextsOf(m.blocks))
<1> DEFINE t == Chat!TextsOf(m.blocks)
           r == Chat!ResultsOf(m.blocks)
           x == [role |-> "user", text |-> t]
           y == IF t = <<>> THEN <<>> ELSE <<x>>
<1>1. m.blocks \in Seq(Block)
  BY DEF BlockMessage
<1>2. t \in Seq(Nat) /\ r \in Seq(Result)
  BY <1>1, BlocksMapped
<1>3. Converted(m) = Cat(y, r)
  BY DEF Converted, Chat!UserToOpenAI, Cat
<1> HIDE DEF t, r
<1>4. x \in PlainMessage /\ x.role = "user" /\ x.text = t
  BY <1>2 DEF PlainMessage, Spoken
<1>5. Say[x] = Voiced("user", t)
  BY <1>4 DEF Say, Voiced
<1> HIDE DEF x
<1>6. y \in Seq(PlainMessage) /\ Mapped(y, Say) = Voiced("user", t)
  <2>1. CASE t = <<>>
    BY <2>1, EmptySeq, MappedEmpty, NothingVoiced
  <2>2. CASE t # <<>>
    <3>1. Mapped(<<x>>, Say) = Say[x]
      BY <1>4, SayType, MappedOne
    <3>2. <<x>> \in Seq(PlainMessage)
      BY <1>4
    <3>3. QED
      BY <1>5, <2>2, <3>1, <3>2
  <2>3. QED
    BY <2>1, <2>2
<1> HIDE DEF y
<1>7. r \in Seq(PlainMessage)
  BY <1>2, SeqMonotonic DEF PlainMessage
<1>8. Mapped(r, Say) = <<>>
  <2>1. \A z \in Result : Say[z] = <<>>
    BY DEF Say, PlainMessage, Result
  <2>2. QED
    BY <1>2, <2>1, MappedToNothing
<1>9. Mapped(Cat(y, r), Say) = Cat(Mapped(y, Say), Mapped(r, Say))
  BY <1>6, <1>7, SayType, MappedCat
<1>10. Mapped(y, Say) \in Seq(Saying)
  BY <1>6, SayType, MappedType
<1>11. Mapped(Cat(y, r), Say) = Voiced("user", t)
  BY <1>6, <1>8, <1>9, <1>10, CatEmpty
<1>12. Cat(y, r) \in Seq(PlainMessage)
  BY <1>6, <1>7, CatAssociative
<1>13. QED
  BY <1>3, <1>11, <1>12 DEF t, r, x, y

(* What the messages of an Anthropic client say reaches the upstream.      *)
Spelled(s) == [i \in DOMAIN s |-> [role |-> s[i].role, text |-> Chat!TextsOf(s[i].blocks)]]

LEMMA BlocksKeepTexts ==
    ASSUME NEW s \in Seq(BlockMessage)
    PROVE  Chat!Said(Chat!AnthropicToOpenAIRequest(s).messages) = Chat!Said(Spelled(s))
<1> DEFINE n == Len(s)
           B == [i \in 1..n |-> Converted(s[i])]
<1>1. n \in Nat /\ DOMAIN s = 1..n
  BY LenProperties
<1>2. ASSUME NEW i \in 1..n PROVE s[i] \in BlockMessage /\ s[i].role \in {"user", "assistant"}
  <2>1. s[i] \in BlockMessage
    BY <1>1, ElementOfSeq
  <2>2. QED
    BY <2>1 DEF BlockMessage
<1>3. Chat!AnthropicToOpenAIRequest(s).messages = FlattenSeq(B)
  BY <1>1, Flattened DEF Chat!AnthropicToOpenAIRequest, Chat!Collected, Chat!Mapped, Converted
<1>4. ASSUME NEW i \in 1..n
      PROVE  /\ B[i] \in Seq(PlainMessage)
             /\ Mapped(B[i], Say) = Voiced(s[i].role, Chat!TextsOf(s[i].blocks))
  BY <1>2, AssistantConverted, UserConverted
<1>5. B \in [1..n -> Seq(PlainMessage)]
  BY <1>4
<1>6. Chat!Said(Spelled(s)) = FlattenSeq([i \in 1..n |-> Voiced(s[i].role, Chat!TextsOf(s[i].blocks))])
  <2> DEFINE T == Spelled(s)
  <2>1. Chat!Said(T) = FlattenSeq([i \in DOMAIN T |->
          IF T[i].role = "tool" THEN <<>> ELSE [j \in DOMAIN T[i].text |-> <<T[i].role, T[i].text[j]>>]])
    BY Flattened, Zenon DEF Chat!Said, Chat!Collected, Chat!Mapped
  <2>2. [i \in DOMAIN T |->
          IF T[i].role = "tool" THEN <<>> ELSE [j \in DOMAIN T[i].text |-> <<T[i].role, T[i].text[j]>>]]
        = [i \in 1..n |-> Voiced(s[i].role, Chat!TextsOf(s[i].blocks))]
    BY <1>1, <1>2 DEF Voiced, Spelled
  <2>3. QED
    BY <2>1, <2>2
<1> HIDE DEF n
<1>7. [i \in 1..n |-> Mapped(B[i], Say)] = [i \in 1..n |-> Voiced(s[i].role, Chat!TextsOf(s[i].blocks))]
  BY <1>4
<1> HIDE DEF B
<1>8. QED
  BY <1>1, <1>3, <1>5, <1>6, <1>7, SaidOfConverted

(* A message of an OpenAI client, as it is converted.                      *)
Simplified(m) ==
    IF m.role \in {"user", "assistant"} THEN <<[role |-> m.role, text |-> m.text]>> ELSE <<>>

LEMMA PlainConverted ==
    ASSUME NEW m \in PlainMessage
    PROVE  Simplified(m) \in Seq(Spoken) /\ Mapped(Simplified(m), Say) = Say[m]
<1>1. CASE m.role = "tool"
  BY <1>1, EmptySeq, MappedEmpty DEF Simplified, Say
<1>2. CASE m.role # "tool"
  <2> DEFINE x == [role |-> m.role, text |-> m.text]
  <2>1. x \in Spoken /\ m.role \in {"user", "assistant"}
    BY <1>2 DEF PlainMessage, Result, Spoken, Called
  <2>2. x \in PlainMessage /\ Say[x] = Say[m]
    BY <1>2, <2>1 DEF PlainMessage, Say
  <2>3. Simplified(m) = <<x>>
    BY <2>1 DEF Simplified
  <2> HIDE DEF x
  <2>4. <<x>> \in Seq(Spoken) /\ Mapped(<<x>>, Say) = Say[x]
    BY <2>1, <2>2, SayType, MappedOne
  <2>5. QED
    BY <2>2, <2>3, <2>4
<1>3. QED
  BY <1>1, <1>2

LEMMA PlainKeepTexts ==
    ASSUME NEW s \in Seq(PlainMessage)
    PROVE  Chat!Said(Chat!OpenAIToAnthropicRequest(s).messages) = Chat!Said(s)
<1> DEFINE n == Len(s)
           B == [i \in 1..n |-> Simplified(s[i])]
<1>1. n \in Nat /\ DOMAIN s = 1..n
  BY LenProperties
<1>2. Chat!OpenAIToAnthropicRequest(s).messages = FlattenSeq(B)
  BY <1>1, Flattened DEF Chat!OpenAIToAnthropicRequest, Chat!Collected, Chat!Mapped, Simplified
<1>3. ASSUME NEW i \in 1..n
      PROVE  B[i] \in Seq(Spoken) /\ Mapped(B[i], Say) = Say[s[i]]
  BY <1>1, ElementOfSeq, PlainConverted
<1>4. B \in [1..n -> Seq(Spoken)] /\ B \in [1..n -> Seq(PlainMessage)]
  <2>1. Seq(Spoken) \subseteq Seq(PlainMessage)
    BY SeqMonotonic DEF PlainMessage
  <2>2. QED
    BY <1>3, <2>1
<1>5. Chat!Said(s) = FlattenSeq([i \in 1..n |-> Say[s[i]]])
  BY <1>1, SaidMapped DEF Mapped
<1> HIDE DEF n
<1>7. [i \in 1..n |-> Mapped(B[i], Say)] = [i \in 1..n |-> Say[s[i]]]
  BY <1>3
<1> HIDE DEF B
<1>8. QED
  BY <1>1, <1>2, <1>4, <1>5, <1>7, SaidOfConverted

(* What a client knows and what an upstream may answer.                    *)
AnswerCall == [id: Ids, args: Chat!Args \cup Chat!Inputs]
ReasonsGiven == {"tool_calls", "length", "stop", "content_filter",
                 "tool_use", "max_tokens", "end_turn", "stop_sequence", "refusal"}
AnswerGiven == [text: Seq(Nat), calls: Seq(AnswerCall), reason: ReasonsGiven]

Conversing ==
    /\ client \in {"anthropic", "openai"}
    /\ answers \in Seq(AnswerGiven)
    /\ client = "anthropic" => talk \in Seq(BlockMessage)
    /\ client = "openai" => talk \in Seq(PlainMessage)

LEMMA PendingType ==
    ASSUME Conversing
    PROVE  Chat!Pending \in Seq(Ids) /\ Chat!Turn \in Nat \ {0}
<1>1. Len(answers) \in Nat
  BY LenProperties DEF Conversing
<1>2. CASE answers = <<>>
  BY <1>1, <1>2, EmptySeq DEF Chat!Pending, Chat!Turn
<1>3. CASE answers # <<>>
  <2> DEFINE c == answers[Len(answers)].calls
             f == [i \in DOMAIN c |-> c[i].id]
  <2>1. answers[Len(answers)] \in AnswerGiven
    BY <1>1, <1>3, ElementOfSeq, EmptySeq DEF Conversing
  <2>2. c \in Seq(AnswerCall)
    BY <2>1 DEF AnswerGiven
  <2>3. Chat!Pending = f
    BY <1>3 DEF Chat!Pending, Chat!Mapped
  <2> HIDE DEF c
  <2>4. \A i \in DOMAIN c : c[i] \in AnswerCall
    BY <2>2, ElementOfSeq, LenProperties
  <2>5. f \in [DOMAIN c -> Ids]
    BY <2>4 DEF AnswerCall
  <2> HIDE DEF f
  <2>6. QED
    BY <1>1, <2>2, <2>3, <2>5, SameLength DEF Chat!Turn
<1>4. QED
  BY <1>2, <1>3

(* What a client asks.                                                     *)
ResultBlocks(p) == [i \in DOMAIN p |-> [type |-> "tool_result", call |-> p[i]]]
ResultMessages(p) == [i \in DOMAIN p |-> [role |-> "tool", call |-> p[i]]]

LEMMA ResultsType ==
    ASSUME NEW p \in Seq(Ids)
    PROVE  /\ ResultBlocks(p) \in Seq(ResultBlock) /\ Len(ResultBlocks(p)) = Len(p)
           /\ ResultMessages(p) \in Seq(Result) /\ Len(ResultMessages(p)) = Len(p)
<1>1. \A i \in DOMAIN p : p[i] \in Ids
  BY ElementOfSeq, LenProperties
<1>2. ResultBlocks(p) \in [DOMAIN p -> ResultBlock] /\ ResultMessages(p) \in [DOMAIN p -> Result]
  BY <1>1 DEF ResultBlocks, ResultMessages, ResultBlock, Result
<1>3. QED
  BY <1>2, SameLength

LEMMA BlocksAsked ==
    ASSUME Conversing, client = "anthropic", NEW speaks \in BOOLEAN, Chat!Ask(speaks)
    PROVE  \E m \in BlockMessage : m.role = "user" /\ talk' = Append(talk, m)
<1> DEFINE p == Chat!Pending
           x == [type |-> "text", text |-> Chat!Turn]
           t == IF speaks THEN <<x>> ELSE <<>>
           r == ResultBlocks(p)
           m == [role |-> "user", blocks |-> Cat(r, t)]
<1>1. p \in Seq(Ids) /\ Chat!Turn \in Nat
  BY PendingType
<1>2. x \in Block
  BY <1>1 DEF Block, TextBlock
<1>3. talk' = talk \o <<m>>
  BY Zenon DEF Chat!Ask, Chat!Mapped, ResultBlocks, Cat
<1> HIDE DEF p, x
<1>4. t \in Seq(Block)
  BY <1>2, EmptySeq
<1>5. r \in Seq(Block)
  BY <1>1, ResultsType, SeqMonotonic DEF Block
<1> HIDE DEF t, r
<1>6. Cat(r, t) \in Seq(Block)
  BY <1>4, <1>5, CatAssociative
<1>7. m \in BlockMessage /\ m.role = "user"
  BY <1>6 DEF BlockMessage
<1>8. talk' = Append(talk, m)
  BY <1>3, <1>7, AppendIsConcat DEF Conversing
<1>9. QED
  BY <1>7, <1>8

LEMMA MessagesAsked ==
    ASSUME Conversing, client = "openai", NEW speaks \in BOOLEAN, Chat!Ask(speaks)
    PROVE  \E q \in Seq(Result \cup Spoken) :
             /\ talk' = Cat(talk, q)
             /\ q = Cat(ResultMessages(Chat!Pending),
                        IF speaks THEN <<[role |-> "user", text |-> <<Chat!Turn>>]>> ELSE <<>>)
             /\ Len(q) > 0
             /\ q[Len(q)].role = IF speaks THEN "user" ELSE "tool"
<1> DEFINE p == Chat!Pending
           x == [role |-> "user", text |-> <<Chat!Turn>>]
           t == IF speaks THEN <<x>> ELSE <<>>
           r == ResultMessages(p)
           q == Cat(r, t)
<1>1. p \in Seq(Ids) /\ Chat!Turn \in Nat
  BY PendingType
<1>2. x \in Result \cup Spoken /\ x.role = "user"
  BY <1>1 DEF Spoken
<1>3. talk' = Cat(talk, q)
  BY Zenon DEF Chat!Ask, Chat!Mapped, ResultMessages, Cat
<1>4. speaks \/ p # <<>>
  BY DEF Chat!Ask
<1> HIDE DEF p, x
<1>5. r \in Seq(Result) /\ Len(r) = Len(p)
  BY <1>1, ResultsType
<1>6. r \in Seq(Result \cup Spoken)
  BY <1>5, SeqMonotonic
<1> HIDE DEF r
<1>7. q \in Seq(Result \cup Spoken) /\ Len(q) > 0 /\ q[Len(q)].role = IF speaks THEN "user" ELSE "tool"
  <2>1. CASE speaks
    <3>1. q = Append(r, x)
      BY <1>2, <1>6, <2>1, AppendIsConcat DEF Cat
    <3> HIDE DEF q
    <3>2. Append(r, x) \in Seq(Result \cup Spoken) /\ Len(Append(r, x)) = Len(r) + 1
          /\ Append(r, x)[Len(r) + 1] = x /\ Len(r) \in Nat
      BY <1>2, <1>6, AppendProperties, LenProperties
    <3>3. QED
      BY <1>2, <2>1, <3>1, <3>2
  <2>2. CASE ~speaks
    <3>1. q = r
      BY <1>6, <2>2, CatEmpty
    <3> HIDE DEF q
    <3>2. Len(p) \in Nat /\ Len(p) # 0
      BY <1>1, <1>4, <2>2, LenProperties, EmptySeq
    <3>3. r[Len(r)] \in Result
      BY <1>5, <3>2, ElementOfSeq
    <3>4. QED
      BY <1>5, <1>6, <2>2, <3>1, <3>2, <3>3 DEF Result
  <2>3. QED
    BY <2>1, <2>2
<1> HIDE DEF q
<1>8. q \in Seq(Result \cup Spoken) /\ talk' = Cat(talk, q) /\ q = Cat(r, t)
  BY <1>3, <1>7 DEF q
<1>9. QED
  BY <1>7, <1>8 DEF r, p, t, x

(* What is answered, as an Anthropic client gets it and sends it back.     *)
TextBlocks(t) == [i \in DOMAIN t |-> [type |-> "text", text |-> t[i]]]
UseBlocks(c) == [i \in DOMAIN c |-> [type |-> "tool_use", call |-> c[i].id,
                                     input |-> Chat!InputOf(c[i].args)]]
CallsBack(c) == [i \in DOMAIN c |-> [id |-> c[i].id,
                                     args |-> Chat!ArgsOf(Chat!InputOf(c[i].args))]]

LEMMA TextBlocksAlone ==
    ASSUME NEW t \in Seq(Nat)
    PROVE  /\ TextBlocks(t) \in Seq(Block)
           /\ Mapped(TextBlocks(t), OfText) = t
           /\ Mapped(TextBlocks(t), OfUse) = <<>>
<1> DEFINE s == TextBlocks(t)
           k == [b \in TextBlock |-> b.text]
           g == Singly(TextBlock, k)
<1>1. \A i \in DOMAIN t : t[i] \in Nat
  BY ElementOfSeq, LenProperties
<1>2. s \in [DOMAIN t -> TextBlock]
  BY <1>1 DEF TextBlocks, TextBlock
<1>3. s \in Seq(TextBlock) /\ DOMAIN s = DOMAIN t
  BY <1>2, SameLength
<1>4. \A b \in TextBlock : b \in Block /\ OfText[b] = <<b.text>> /\ OfUse[b] = <<>>
  BY DEF OfText, OfUse, Block, TextBlock
<1>5. k \in [TextBlock -> Nat]
  BY DEF TextBlock
<1>6. \A b \in TextBlock : OfText[b] = g[b]
  BY <1>4 DEF Singly
<1>7. Each(s, k) = [i \in DOMAIN t |-> t[i]]
  BY <1>1, <1>2, <1>3 DEF Each, TextBlocks, TextBlock
<1> HIDE DEF s, k, g
<1>8. Mapped(s, OfText) = [i \in DOMAIN t |-> t[i]]
  <2>1. Mapped(s, OfText) = Mapped(s, g)
    BY <1>3, <1>6, MappedSame
  <2>2. Mapped(s, g) = Each(s, k)
    BY <1>3, <1>5, MappedEach DEF g
  <2>3. QED
    BY <1>7, <2>1, <2>2
<1>9. [i \in DOMAIN t |-> t[i]] = t
  <2>1. t \in [1..Len(t) -> Nat]
    BY LenProperties
  <2>2. QED
    BY <2>1
<1>10. Mapped(s, OfUse) = <<>>
  BY <1>3, <1>4, MappedToNothing
<1>11. s \in Seq(Block)
  BY <1>3, SeqMonotonic DEF Block
<1>12. QED
  BY <1>8, <1>9, <1>10, <1>11 DEF s

LEMMA UseBlocksAlone ==
    ASSUME NEW c \in Seq(AnswerCall)
    PROVE  /\ UseBlocks(c) \in Seq(Block)
           /\ Mapped(UseBlocks(c), OfText) = <<>>
           /\ Mapped(UseBlocks(c), OfResult) = <<>>
           /\ Mapped(UseBlocks(c), OfUse) = CallsBack(c)
<1> DEFINE s == UseBlocks(c)
           k == [b \in UseBlock |-> [id |-> b.call, args |-> Chat!ArgsOf(b.input)]]
           g == Singly(UseBlock, k)
<1>1. \A i \in DOMAIN c : c[i] \in AnswerCall
  BY ElementOfSeq, LenProperties
<1>2. s \in [DOMAIN c -> UseBlock]
  BY <1>1 DEF UseBlocks, UseBlock, AnswerCall, Chat!InputOf, Chat!Inputs
<1>3. s \in Seq(UseBlock) /\ DOMAIN s = DOMAIN c
  BY <1>2, SameLength
<1>4. \A b \in UseBlock : /\ b \in Block /\ OfText[b] = <<>> /\ OfResult[b] = <<>>
                          /\ OfUse[b] = <<[id |-> b.call, args |-> Chat!ArgsOf(b.input)]>>
  BY DEF OfText, OfResult, OfUse, Block, UseBlock
<1>5. k \in [UseBlock -> CallRecord]
  <2>1. \A b \in UseBlock : [id |-> b.call, args |-> Chat!ArgsOf(b.input)] \in CallRecord
    BY DEF UseBlock, CallRecord, Chat!ArgsOf, Chat!Args
  <2>2. QED
    BY <2>1
<1>6. \A b \in UseBlock : OfUse[b] = g[b]
  BY <1>4 DEF Singly
<1>7. Each(s, k) = CallsBack(c)
  BY <1>1, <1>2, <1>3 DEF Each, UseBlocks, UseBlock, CallsBack
<1> HIDE DEF s, k, g
<1>8. Mapped(s, OfUse) = CallsBack(c)
  <2>1. Mapped(s, OfUse) = Mapped(s, g)
    BY <1>3, <1>6, MappedSame
  <2>2. Mapped(s, g) = Each(s, k)
    BY <1>3, <1>5, MappedEach DEF g
  <2>3. QED
    BY <1>7, <2>1, <2>2
<1>9. Mapped(s, OfText) = <<>> /\ Mapped(s, OfResult) = <<>>
  BY <1>3, <1>4, MappedToNothing
<1>10. s \in Seq(Block)
  BY <1>3, SeqMonotonic DEF Block
<1>11. QED
  BY <1>8, <1>9, <1>10 DEF s

LEMMA AnswerTaken ==
    ASSUME NEW a \in AnswerGiven
    PROVE  LET m == Chat!OpenAIToAnthropicResponse(a)
           IN  /\ m \in BlockMessage /\ m.role = "assistant"
               /\ Chat!TextsOf(m.blocks) = a.text
               /\ Chat!CallsIn(m.blocks) = CallsBack(a.calls)
<1> DEFINE m == Chat!OpenAIToAnthropicResponse(a)
           x == TextBlocks(a.text)
           y == UseBlocks(a.calls)
<1>1. a.text \in Seq(Nat) /\ a.calls \in Seq(AnswerCall)
  BY DEF AnswerGiven
<1>2. /\ x \in Seq(Block) /\ Mapped(x, OfText) = a.text /\ Mapped(x, OfUse) = <<>>
      /\ y \in Seq(Block) /\ Mapped(y, OfText) = <<>> /\ Mapped(y, OfUse) = CallsBack(a.calls)
  BY <1>1, TextBlocksAlone, UseBlocksAlone
<1>3. m = [role |-> "assistant", blocks |-> Cat(x, y)]
  BY Zenon DEF Chat!OpenAIToAnthropicResponse, Chat!Mapped, TextBlocks, UseBlocks, Cat
<1> HIDE DEF m, x, y
<1>4. Cat(x, y) \in Seq(Block)
  BY <1>2, CatAssociative
<1>5. Mapped(Cat(x, y), OfText) = a.text
  <2>1. Mapped(Cat(x, y), OfText) = Cat(Mapped(x, OfText), Mapped(y, OfText))
    <3>1. x \in Seq(Block)
      BY <1>2
    <3>2. y \in Seq(Block)
      BY <1>2
    <3>3. OfText \in [Block -> Seq(Nat)]
      BY OfTypes
    <3>4. QED
      BY <3>1, <3>2, <3>3, MappedCat
  <2>2. QED
    BY <1>1, <1>2, <2>1, CatEmpty
<1>6. Mapped(Cat(x, y), OfUse) = CallsBack(a.calls)
  <2>1. Mapped(Cat(x, y), OfUse) = Cat(Mapped(x, OfUse), Mapped(y, OfUse))
    <3>1. x \in Seq(Block)
      BY <1>2
    <3>2. y \in Seq(Block)
      BY <1>2
    <3>3. OfUse \in [Block -> Seq(CallRecord)]
      BY OfTypes
    <3>4. QED
      BY <3>1, <3>2, <3>3, MappedCat
  <2>2. Mapped(y, OfUse) \in Seq(CallRecord)
    BY <1>2, OfTypes, MappedType
  <2>3. QED
    BY <1>2, <2>1, <2>2, CatEmpty
<1>7. m \in BlockMessage /\ m.role = "assistant"
  BY <1>3, <1>4 DEF BlockMessage
<1>8. m.blocks = Cat(x, y)
  BY <1>3
<1>9. QED
  BY <1>4, <1>5, <1>6, <1>7, <1>8, BlocksMapped DEF m

(* What an OpenAI client gets of an answer.                                *)
CallsHeard(c) == [i \in DOMAIN c |-> [id |-> c[i].id, args |-> Chat!ArgsOf(c[i].args)]]

LEMMA AnswerHeard ==
    ASSUME NEW a \in AnswerGiven
    PROVE  LET m == Chat!AnthropicToOpenAIResponse(a)
           IN  m \in Called /\ m.text = a.text /\ m.calls = CallsHeard(a.calls)
<1> DEFINE c == a.calls
           h == CallsHeard(c)
           m == Chat!AnthropicToOpenAIResponse(a)
<1>1. a.text \in Seq(Nat) /\ c \in Seq(AnswerCall)
  BY DEF AnswerGiven
<1>2. m = [role |-> "assistant", text |-> a.text, calls |-> h]
  BY Zenon DEF Chat!AnthropicToOpenAIResponse, Chat!Mapped, CallsHeard
<1> HIDE DEF c, m
<1>3. \A i \in DOMAIN c : c[i] \in AnswerCall
  BY <1>1, ElementOfSeq, LenProperties
<1>4. h \in [DOMAIN c -> CallRecord]
  <2>1. \A i \in DOMAIN c : [id |-> c[i].id, args |-> Chat!ArgsOf(c[i].args)] \in CallRecord
    BY <1>3 DEF AnswerCall, CallRecord, Chat!ArgsOf, Chat!Args
  <2>2. QED
    BY <2>1 DEF CallsHeard
<1> HIDE DEF h
<1>5. h \in Seq(CallRecord)
  BY <1>1, <1>4, SameLength
<1>6. QED
  BY <1>1, <1>2, <1>5 DEF Called, m, h, c

LEMMA AnswerGot ==
    ASSUME Conversing, NEW says \in BOOLEAN, NEW n \in Nat,
           NEW args \in [1..n -> Chat!Args \cup Chat!Inputs], NEW reason \in Chat!Reasons(args),
           Chat!Answer(says, args, reason)
    PROVE  \E a \in AnswerGiven :
             /\ a.reason = reason
             /\ answers' = Append(answers, a)
             /\ client = "anthropic" => /\ talk' = Append(talk, Chat!OpenAIToAnthropicResponse(a))
                                        /\ stop' = Chat!StopReason(reason)
             /\ client = "openai" => /\ talk' = Append(talk, Chat!AnthropicToOpenAIResponse(a))
                                     /\ stop' = Chat!mapAnthropicStopReason(reason)
<1> DEFINE c == Chat!CallsOf(args)
           t == IF says THEN <<Chat!Turn>> ELSE <<>>
           a == [text |-> t, calls |-> c, reason |-> reason]
<1>1. Chat!Turn \in Nat
  BY PendingType
<1>2. t \in Seq(Nat)
  BY <1>1, EmptySeq
<1>3. c \in [1..n -> AnswerCall]
  <2>1. \A i \in 1..n : [id |-> <<Chat!Turn, i>>, args |-> args[i]] \in AnswerCall
    BY <1>1 DEF AnswerCall, Ids
  <2>2. QED
    BY <2>1 DEF Chat!CallsOf
<1>4. reason \in ReasonsGiven
  BY DEF Chat!Reasons, ReasonsGiven
<1>5. /\ answers' = Append(answers, a)
      /\ client = "anthropic" => /\ talk' = Append(talk, Chat!OpenAIToAnthropicResponse(a))
                                 /\ stop' = Chat!StopReason(reason)
      /\ client = "openai" => /\ talk' = Append(talk, Chat!AnthropicToOpenAIResponse(a))
                              /\ stop' = Chat!mapAnthropicStopReason(reason)
  BY Zenon DEF Chat!Answer
<1> HIDE DEF t, c
<1>6. c \in Seq(AnswerCall)
  BY <1>3, SeqDef
<1>7. a \in AnswerGiven /\ a.reason = reason
  BY <1>2, <1>4, <1>6 DEF AnswerGiven
<1> HIDE DEF a
<1>8. QED
  BY <1>5, <1>7

(* The ids of the calls an answer makes, as they are told.                 *)
LEMMA IdsTold ==
    ASSUME NEW c \in Seq(AnswerCall)
    PROVE  /\ [i \in DOMAIN CallsBack(c) |-> CallsBack(c)[i].id] = [i \in DOMAIN c |-> c[i].id]
           /\ [i \in DOMAIN CallsHeard(c) |-> CallsHeard(c)[i].id] = [i \in DOMAIN c |-> c[i].id]
BY DEF CallsBack, CallsHeard

LEMMA LastAppended ==
    ASSUME NEW S, NEW s \in Seq(S), NEW e \in S
    PROVE  /\ Append(s, e) \in Seq(S) /\ Append(s, e) # <<>>
           /\ Len(Append(s, e)) = Len(s) + 1 /\ Len(s) \in Nat
           /\ Append(s, e)[Len(Append(s, e))] = e
<1>1. /\ Append(s, e) \in Seq(S) /\ Len(Append(s, e)) = Len(s) + 1 /\ Len(s) \in Nat
      /\ Append(s, e)[Len(s) + 1] = e
  BY AppendProperties, LenProperties
<1>2. QED
  BY <1>1, EmptySeq

LEMMA LastOfCat ==
    ASSUME NEW S, NEW s \in Seq(S), NEW t \in Seq(S), Len(t) > 0
    PROVE  /\ Cat(s, t) \in Seq(S) /\ Len(Cat(s, t)) = Len(s) + Len(t)
           /\ Len(s) \in Nat /\ Len(t) \in Nat
           /\ Cat(s, t)[Len(Cat(s, t))] = t[Len(t)]
<1>1. /\ s \o t \in Seq(S) /\ Len(s \o t) = Len(s) + Len(t)
      /\ Len(s) \in Nat /\ Len(t) \in Nat
      /\ \A k \in Len(s) + 1 .. Len(s) + Len(t) : (s \o t)[k] = t[k - Len(s)]
  BY ConcatProperties, LenProperties
<1>2. Len(s) + Len(t) \in Len(s) + 1 .. Len(s) + Len(t) /\ Len(s) + Len(t) - Len(s) = Len(t)
  BY <1>1
<1>3. QED
  BY <1>1, <1>2 DEF Cat

LEMMA ConversationBegins ==
    ASSUME Chat!Init
    PROVE  Conversing /\ Chat!TextsKept /\ Chat!CallsAnnounced
BY EmptySeq DEF Chat!Init, Conversing, Chat!TextsKept, Chat!CallsAnnounced, Chat!Asked

LEMMA AskConverses ==
    ASSUME Conversing, NEW speaks \in BOOLEAN, Chat!Ask(speaks)
    PROVE  Conversing' /\ Chat!TextsKept' /\ Chat!CallsAnnounced'
<1>1. client' = client /\ prompt' = prompt /\ answers' = answers
  BY DEF Chat!Ask
<1>2. CASE client = "anthropic"
  <2>1. PICK m \in BlockMessage : m.role = "user" /\ talk' = Append(talk, m)
    BY <1>2, BlocksAsked
  <2>2. talk \in Seq(BlockMessage)
    BY <1>2 DEF Conversing
  <2>3. talk' \in Seq(BlockMessage) /\ talk' # <<>> /\ talk'[Len(talk')] = m /\ Len(talk') > 0
    BY <2>1, <2>2, LastAppended
  <2>4. chatSent' = Chat!AnthropicToOpenAIRequest(talk')
    BY <1>2 DEF Chat!Ask
  <2>5. Chat!Said(chatSent'.messages) = Chat!Said(Spelled(talk'))
    BY <2>3, <2>4, BlocksKeepTexts
  <2>6. Chat!TextsOfTalk' = Chat!Said(Spelled(talk'))
    BY <1>1, <1>2 DEF Chat!TextsOfTalk, Chat!Mapped, Spelled
  <2>7. chatSent'.system = IF prompt = "string" THEN <<"prompt">> ELSE <<>>
    BY <2>4 DEF Chat!AnthropicToOpenAIRequest
  <2>8. QED
    BY <1>1, <1>2, <2>1, <2>3, <2>5, <2>6, <2>7
       DEF Conversing, Chat!TextsKept, Chat!CallsAnnounced, Chat!Asked
<1>3. CASE client = "openai"
  <2>1. PICK q \in Seq(Result \cup Spoken) :
          /\ talk' = Cat(talk, q) /\ Len(q) > 0
          /\ q[Len(q)].role = IF speaks THEN "user" ELSE "tool"
    BY <1>3, MessagesAsked
  <2>2. talk \in Seq(PlainMessage) /\ q \in Seq(PlainMessage)
    BY <1>3, SeqMonotonic DEF Conversing, PlainMessage
  <2>3. talk' \in Seq(PlainMessage) /\ talk'[Len(talk')].role # "assistant" /\ Len(talk') > 0
    <3>1. q[Len(q)].role # "assistant"
      BY <2>1
    <3>2. /\ Cat(talk, q) \in Seq(PlainMessage) /\ Cat(talk, q)[Len(Cat(talk, q))] = q[Len(q)]
          /\ Len(Cat(talk, q)) > 0
      <4>1. Len(q) > 0
        BY <2>1
      <4>2. /\ Cat(talk, q) \in Seq(PlainMessage) /\ Cat(talk, q)[Len(Cat(talk, q))] = q[Len(q)]
            /\ Len(Cat(talk, q)) = Len(talk) + Len(q) /\ Len(talk) \in Nat /\ Len(q) \in Nat
        BY <2>2, <4>1, LastOfCat
      <4>3. QED
        BY <4>1, <4>2
    <3>3. QED
      BY <2>1, <3>1, <3>2
  <2>4. chatSent' = Chat!OpenAIToAnthropicRequest(talk')
    BY <1>3 DEF Chat!Ask
  <2>5. Chat!Said(chatSent'.messages) = Chat!Said(talk')
    BY <2>3, <2>4, PlainKeepTexts
  <2>6. Chat!TextsOfTalk' = Chat!Said(talk')
    BY <1>1, <1>3 DEF Chat!TextsOfTalk
  <2>7. chatSent'.system = IF prompt = "string" THEN <<"prompt">> ELSE <<>>
    BY <2>4 DEF Chat!OpenAIToAnthropicRequest
  <2>8. QED
    BY <1>1, <1>3, <2>3, <2>5, <2>6, <2>7
       DEF Conversing, Chat!TextsKept, Chat!CallsAnnounced, Chat!Asked
<1>4. QED
  BY <1>2, <1>3 DEF Conversing

LEMMA AnswerConverses ==
    ASSUME Conversing, NEW says \in BOOLEAN, NEW n \in Nat,
           NEW args \in [1..n -> Chat!Args \cup Chat!Inputs], NEW reason \in Chat!Reasons(args),
           Chat!Answer(says, args, reason)
    PROVE  Conversing' /\ Chat!TextsKept' /\ Chat!CallsAnnounced'
<1>1. client' = client
  BY DEF Chat!Answer
<1>2. PICK a \in AnswerGiven :
        /\ a.reason = reason
        /\ answers' = Append(answers, a)
        /\ client = "anthropic" => /\ talk' = Append(talk, Chat!OpenAIToAnthropicResponse(a))
                                   /\ stop' = Chat!StopReason(reason)
        /\ client = "openai" => /\ talk' = Append(talk, Chat!AnthropicToOpenAIResponse(a))
                                /\ stop' = Chat!mapAnthropicStopReason(reason)
  BY AnswerGot
<1>3. answers' \in Seq(AnswerGiven) /\ answers' # <<>> /\ answers'[Len(answers')] = a
  BY <1>2, LastAppended DEF Conversing
<1>4. a.calls \in Seq(AnswerCall)
  BY DEF AnswerGiven
<1>5. Chat!Pending' = [i \in DOMAIN a.calls |-> a.calls[i].id]
  BY <1>3 DEF Chat!Pending, Chat!Mapped
<1>6. CASE client = "anthropic"
  <2> DEFINE m == Chat!OpenAIToAnthropicResponse(a)
  <2>1. /\ m \in BlockMessage /\ m.role = "assistant"
        /\ Chat!CallsIn(m.blocks) = CallsBack(a.calls)
    BY AnswerTaken
  <2>2. talk' = Append(talk, m) /\ stop' = Chat!StopReason(reason)
    BY <1>2, <1>6
  <2> HIDE DEF m
  <2>3. talk' \in Seq(BlockMessage) /\ talk' # <<>> /\ talk'[Len(talk')] = m
    BY <1>6, <2>1, <2>2, LastAppended DEF Conversing
  <2>4. [i \in DOMAIN Chat!CallsIn(m.blocks) |-> Chat!CallsIn(m.blocks)[i].id] = Chat!Pending'
    BY <1>4, <1>5, <2>1, IdsTold
  <2>5. /\ stop' \in {"tool_use", "tool_calls"} <=> reason \in {"tool_use", "tool_calls"}
        /\ stop' \in {"length", "max_tokens"} <=> reason \in {"length", "max_tokens"}
    <3>1. reason \in {"tool_calls", "length", "stop", "content_filter"}
      BY <1>6 DEF Chat!Reasons
    <3>2. QED
      BY <2>2, <3>1 DEF Chat!StopReason
  <2>6. Chat!CallsAnnounced'
    <3>1. answers'[Len(answers')].reason = reason
      BY <1>2, <1>3
    <3>2. client' = "anthropic"
      BY <1>1, <1>6
    <3>3. QED
      BY <2>3, <2>4, <2>5, <3>1, <3>2, Zenon DEF Chat!CallsAnnounced, Chat!Mapped
  <2>7. ~Chat!Asked'
    BY <2>1, <2>3 DEF Chat!Asked
  <2>8. QED
    BY <1>1, <1>3, <1>6, <2>3, <2>6, <2>7 DEF Conversing, Chat!TextsKept
<1>7. CASE client = "openai"
  <2> DEFINE m == Chat!AnthropicToOpenAIResponse(a)
  <2>1. m \in PlainMessage /\ m.role = "assistant" /\ m.calls = CallsHeard(a.calls)
    BY AnswerHeard DEF Called, PlainMessage
  <2>2. talk' = Append(talk, m) /\ stop' = Chat!mapAnthropicStopReason(reason)
    BY <1>2, <1>7
  <2> HIDE DEF m
  <2>3. talk' \in Seq(PlainMessage) /\ talk' # <<>> /\ talk'[Len(talk')] = m
    BY <1>7, <2>1, <2>2, LastAppended DEF Conversing
  <2>4. [i \in DOMAIN m.calls |-> m.calls[i].id] = Chat!Pending'
    BY <1>4, <1>5, <2>1, IdsTold
  <2>5. /\ stop' \in {"tool_use", "tool_calls"} <=> reason \in {"tool_use", "tool_calls"}
        /\ stop' \in {"length", "max_tokens"} <=> reason \in {"length", "max_tokens"}
    <3>1. reason \in {"tool_use", "max_tokens", "end_turn", "stop_sequence", "refusal"}
      BY <1>7 DEF Chat!Reasons
    <3>2. QED
      BY <2>2, <3>1 DEF Chat!mapAnthropicStopReason
  <2>6. Chat!CallsAnnounced'
    <3>1. answers'[Len(answers')].reason = reason
      BY <1>2, <1>3
    <3>2. client' = "openai"
      BY <1>1, <1>7
    <3>3. QED
      BY <2>3, <2>4, <2>5, <3>1, <3>2, Zenon DEF Chat!CallsAnnounced, Chat!Mapped
  <2>7. ~Chat!Asked'
    BY <2>1, <2>3 DEF Chat!Asked
  <2>8. QED
    BY <1>1, <1>3, <1>7, <2>3, <2>6, <2>7 DEF Conversing, Chat!TextsKept
<1>8. QED
  BY <1>6, <1>7 DEF Conversing

LEMMA ChatRuns == Spec => Chat!Init /\ [][Chat!Next]_chatVars
<1>1. Init => Chat!Init
  BY DEF Init
<1>2. [Next]_vars => [Chat!Next]_chatVars
  BY DEF Next, vars
<1>3. QED
  BY <1>1, <1>2, PTL DEF Spec

LEMMA ConversingAlways == Spec => [](Conversing /\ Chat!TextsKept /\ Chat!CallsAnnounced)
<1> DEFINE Inv == Conversing /\ Chat!TextsKept /\ Chat!CallsAnnounced
<1>1. Chat!Init => Inv
  BY ConversationBegins
<1>2. Inv /\ [Chat!Next]_chatVars => Inv'
  <2> SUFFICES ASSUME Inv, [Chat!Next]_chatVars PROVE Inv'
    OBVIOUS
  <2>1. ASSUME NEW speaks \in BOOLEAN, Chat!Ask(speaks) PROVE Inv'
    BY <2>1, AskConverses
  <2>2. ASSUME NEW says \in BOOLEAN, NEW n \in 0..MaxCalls,
               NEW args \in [1..n -> IF client = "anthropic" THEN Chat!Args ELSE {"object"}],
               NEW reason \in Chat!Reasons(args), Chat!Answer(says, args, reason)
        PROVE  Inv'
    <3>1. n \in Nat
      BY RequestPathAssumption
    <3>2. args \in [1..n -> Chat!Args \cup Chat!Inputs]
      BY DEF Chat!Inputs
    <3>3. QED
      BY <2>2, <3>1, <3>2, AnswerConverses
  <2>3. CASE UNCHANGED chatVars
    <3>1. /\ client' = client /\ prompt' = prompt /\ talk' = talk /\ chatSent' = chatSent
          /\ stop' = stop /\ answers' = answers
      BY <2>3 DEF chatVars
    <3>2. Chat!Asked' = Chat!Asked /\ Conversing' = Conversing
      BY <3>1 DEF Chat!Asked, Conversing
    <3>3. Chat!TextsOfTalk' = Chat!TextsOfTalk /\ Chat!Pending' = Chat!Pending
      BY <3>1 DEF Chat!TextsOfTalk, Chat!Pending, Chat!Mapped
    <3>4. Chat!TextsKept' = Chat!TextsKept
      BY <3>1, <3>2, <3>3 DEF Chat!TextsKept
    <3>5. Chat!CallsAnnounced' = Chat!CallsAnnounced
      BY <3>1, <3>2, <3>3 DEF Chat!CallsAnnounced, Chat!Mapped
    <3>6. QED
      BY <3>2, <3>4, <3>5
  <2>4. QED
    BY <2>1, <2>2, <2>3 DEF Chat!Next
<1>3. QED
  BY <1>1, <1>2, ChatRuns, PTL

(* Of the non-streaming conversions: what client and model have said so    *)
(* far reaches the model in every request, all of it and in order, however *)
(* many turns, calls and results there are.                                *)
THEOREM TextsAlwaysKept == Spec => []TextsKept
<1>1. Conversing /\ Chat!TextsKept /\ Chat!CallsAnnounced => TextsKept
  BY DEF TextsKept
<1>2. QED
  BY <1>1, ConversingAlways, PTL

(* Of the non-streaming conversions: a client is told to run calls exactly *)
(* when the model waits for their results, and it has then got every call  *)
(* of the answer, in order.                                                *)
THEOREM CallsAlwaysAnnounced == Spec => []CallsAnnounced
<1>1. Conversing /\ Chat!TextsKept /\ Chat!CallsAnnounced => CallsAnnounced
  BY DEF CallsAnnounced
<1>2. QED
  BY <1>1, ConversingAlways, PTL

(* An OpenAI client's messages, as they are converted one by one.          *)
Simple == [m \in PlainMessage |-> Simplified(m)]

LEMMA SimpleMapped ==
    /\ Simple \in [PlainMessage -> Seq(Spoken)]
    /\ \A s \in Seq(PlainMessage) :
         /\ Chat!OpenAIToAnthropicRequest(s).messages = Mapped(s, Simple)
         /\ Mapped(s, Simple) \in Seq(Spoken)
<1>1. Simple \in [PlainMessage -> Seq(Spoken)]
  BY PlainConverted DEF Simple
<1>2. ASSUME NEW s \in Seq(PlainMessage)
      PROVE  Chat!OpenAIToAnthropicRequest(s).messages = Mapped(s, Simple)
  <2>1. \A i \in DOMAIN s : s[i] \in PlainMessage
    BY ElementOfSeq, LenProperties
  <2>2. [i \in DOMAIN s |-> Simplified(s[i])] = [i \in DOMAIN s |-> Simple[s[i]]]
    BY <2>1 DEF Simple
  <2>3. Chat!OpenAIToAnthropicRequest(s).messages = FlattenSeq([i \in DOMAIN s |-> Simplified(s[i])])
    BY Flattened DEF Chat!OpenAIToAnthropicRequest, Chat!Collected, Chat!Mapped, Simplified
  <2>4. QED
    BY <2>2, <2>3 DEF Mapped
<1>3. QED
  BY <1>1, <1>2, MappedType

(* Of what is asked next, the results are left out.                        *)
LEMMA AskedSimply ==
    ASSUME NEW p \in Seq(Ids), NEW turn1 \in Nat, NEW speaks \in BOOLEAN,
           NEW q, q = Cat(ResultMessages(p),
                          IF speaks THEN <<[role |-> "user", text |-> <<turn1>>]>> ELSE <<>>)
    PROVE  Mapped(q, Simple) = IF speaks THEN <<[role |-> "user", text |-> <<turn1>>]>> ELSE <<>>
<1> DEFINE x == [role |-> "user", text |-> <<turn1>>]
           t == IF speaks THEN <<x>> ELSE <<>>
           r == ResultMessages(p)
<1>1. x \in PlainMessage /\ Simple[x] = <<x>>
  BY DEF PlainMessage, Spoken, Simple, Simplified
<1>2. r \in Seq(Result)
  BY ResultsType
<1> HIDE DEF x, r
<1>3. t \in Seq(PlainMessage) /\ Mapped(t, Simple) = t
  <2>1. CASE speaks
    BY <1>1, <2>1, SimpleMapped, MappedOne
  <2>2. CASE ~speaks
    BY <2>2, EmptySeq, MappedEmpty
  <2>3. QED
    BY <2>1, <2>2
<1> HIDE DEF t
<1>4. Mapped(r, Simple) = <<>>
  <2>1. \A z \in Result : Simple[z] = <<>>
    BY DEF Simple, Simplified, PlainMessage, Result
  <2>2. QED
    BY <1>2, <2>1, MappedToNothing
<1>5. Mapped(Cat(r, t), Simple) = Cat(Mapped(r, Simple), Mapped(t, Simple))
  <2>1. r \in Seq(PlainMessage)
    BY <1>2, SeqMonotonic DEF PlainMessage
  <2>2. QED
    <3>1. Simple \in [PlainMessage -> Seq(Spoken)]
      BY SimpleMapped
    <3>2. QED
      BY ZenonT(30), <1>3, <2>1, <3>1, MappedCat
<1>6. Mapped(Cat(r, t), Simple) = t
  BY <1>3, <1>4, <1>5, CatEmpty
<1>7. QED
  BY <1>6, Zenon DEF r, t, x

(* Messages take turns, the user first.                                    *)
Alternates(m) ==
    \A i \in DOMAIN m : m[i].role = IF i % 2 = 1 THEN "user" ELSE "assistant"

LEMMA AlternatesLonger ==
    ASSUME NEW m \in Seq(Spoken), Alternates(m), NEW e \in Spoken,
           e.role = IF (Len(m) + 1) % 2 = 1 THEN "user" ELSE "assistant"
    PROVE  Alternates(Append(m, e))
<1> DEFINE v == Append(m, e)
           n == Len(m)
<1>1. /\ Len(v) = n + 1 /\ DOMAIN v = 1 .. n + 1
      /\ DOMAIN m = 1..n /\ n \in Nat /\ v[n + 1] = e
      /\ \A i \in 1..n : v[i] = m[i]
  BY Appended
<1> HIDE DEF v, n
<1>2. ASSUME NEW i \in 1 .. n + 1
      PROVE  v[i].role = IF i % 2 = 1 THEN "user" ELSE "assistant"
  <2>1. CASE i = n + 1
    BY <1>1, <2>1 DEF n
  <2>2. CASE i # n + 1
    <3>1. i \in 1..n
      BY <1>1, <2>2
    <3>2. QED
      BY <1>1, <3>1 DEF Alternates
  <2>3. QED
    BY <2>1, <2>2
<1>3. QED
  BY <1>1, <1>2 DEF Alternates, v

NoCalls == \A k \in DOMAIN answers : answers[k].calls = <<>>

Simplest == Mapped(talk, Simple)

(* Of an OpenAI client: what reaches the model ends with the user's words, *)
(* or with the answer the client brings results for.                       *)
TakingTurns ==
    client = "openai" =>
      /\ talk = <<>> => answers = <<>>
      /\ talk # <<>> => /\ Simplest # <<>>
                        /\ Simplest[Len(Simplest)].role = "user" <=> talk[Len(talk)].role = "user"
      /\ ~Chat!Asked /\ talk # <<>> => Simplest[Len(Simplest)].role = "assistant"
      /\ NoCalls => Alternates(Simplest) /\ (Len(Simplest) % 2 = 1 <=> Chat!Asked)
      /\ Chat!Asked => chatSent.messages = Simplest

LEMMA TurnsTaken ==
    ASSUME Conversing, TakingTurns
    PROVE  Chat!TakeTurns
<1>1. SUFFICES ASSUME Chat!Asked, client = "openai" PROVE Chat!TakeTurns
  BY DEF Chat!TakeTurns
<1>2. chatSent.messages = Simplest /\ talk # <<>>
  <2>1. talk # <<>>
    BY <1>1, EmptySeq DEF Chat!Asked
  <2>2. QED
    BY <1>1, <2>1 DEF TakingTurns
<1>3. Simplest[Len(Simplest)].role = "user" <=> talk[Len(talk)].role = "user"
  BY <1>1, <1>2 DEF TakingTurns
<1>4. NoCalls => Alternates(Simplest)
  BY <1>1 DEF TakingTurns
<1>5. QED
  BY <1>2, <1>3, <1>4 DEF Chat!TakeTurns, NoCalls, Alternates

LEMMA TurnsBegin ==
    ASSUME Chat!Init
    PROVE  TakingTurns
<1>1. talk = <<>> /\ answers = <<>>
  BY DEF Chat!Init
<1>2. Simplest = <<>>
  BY <1>1, MappedEmpty DEF Simplest
<1>3. Len(Simplest) = 0 /\ DOMAIN Simplest = {} /\ ~Chat!Asked
  BY <1>1, <1>2, EmptySeq DEF Chat!Asked
<1>4. QED
  BY <1>1, <1>3 DEF TakingTurns, Alternates

LEMMA AskTakesTurns ==
    ASSUME Conversing, TakingTurns, NEW speaks \in BOOLEAN, Chat!Ask(speaks)
    PROVE  TakingTurns'
<1>1. client' = client /\ answers' = answers /\ ~Chat!Asked /\ (speaks \/ Chat!Pending # <<>>)
  BY DEF Chat!Ask
<1>2. SUFFICES ASSUME client = "openai" PROVE TakingTurns'
  BY <1>1 DEF TakingTurns
<1> DEFINE x == [role |-> "user", text |-> <<Chat!Turn>>]
           u == IF speaks THEN <<x>> ELSE <<>>
<1>3. PICK q \in Seq(Result \cup Spoken) :
        /\ talk' = Cat(talk, q)
        /\ q = Cat(ResultMessages(Chat!Pending), u)
        /\ Len(q) > 0
        /\ q[Len(q)].role = IF speaks THEN "user" ELSE "tool"
  BY <1>2, MessagesAsked
<1>4. talk \in Seq(PlainMessage) /\ q \in Seq(PlainMessage)
  BY <1>2, SeqMonotonic DEF Conversing, PlainMessage
<1>5. /\ talk' \in Seq(PlainMessage) /\ talk' # <<>> /\ Len(talk') > 0
      /\ talk'[Len(talk')].role = IF speaks THEN "user" ELSE "tool"
  <2>1. Len(q) > 0
    BY <1>3
  <2>2. /\ Cat(talk, q) \in Seq(PlainMessage) /\ Cat(talk, q)[Len(Cat(talk, q))] = q[Len(q)]
        /\ Len(Cat(talk, q)) = Len(talk) + Len(q) /\ Len(talk) \in Nat /\ Len(q) \in Nat
    BY <1>4, <2>1, LastOfCat
  <2>3. Len(Cat(talk, q)) > 0
    BY <2>1, <2>2
  <2>4. QED
    BY <1>3, <2>2, <2>3, EmptySeq
<1>6. Chat!Asked'
  <2>1. talk'[Len(talk')].role # "assistant"
    BY <1>5
  <2>2. QED
    BY <1>5, <2>1 DEF Chat!Asked
<1>7. Simplest \in Seq(Spoken) /\ Len(Simplest) \in Nat
  BY <1>4, SimpleMapped, LenProperties DEF Simplest
<1>8. x \in Spoken
  BY PendingType DEF Spoken
<1>9. Simplest' = Cat(Simplest, u)
  <2>1. Mapped(q, Simple) = u
    BY <1>3, PendingType, AskedSimply
  <2>2. Simple \in [PlainMessage -> Seq(Spoken)]
    BY SimpleMapped
  <2> HIDE DEF u
  <2>3. Mapped(Cat(talk, q), Simple) = Cat(Mapped(talk, Simple), Mapped(q, Simple))
    BY <1>4, <2>2, MappedCat
  <2>4. QED
    BY <1>3, <2>1, <2>3 DEF Simplest
<1>10. chatSent'.messages = Simplest'
  <2>1. chatSent' = Chat!OpenAIToAnthropicRequest(talk')
    BY <1>2 DEF Chat!Ask
  <2>2. QED
    BY <1>5, <2>1, SimpleMapped DEF Simplest
<1>11. NoCalls' = NoCalls
  BY <1>1 DEF NoCalls
<1> HIDE DEF x
<1>12. CASE speaks
  <2>1. Simplest' = Append(Simplest, x)
    BY <1>7, <1>8, <1>9, <1>12, AppendIsConcat DEF Cat
  <2>2. /\ Append(Simplest, x) # <<>> /\ Len(Append(Simplest, x)) = Len(Simplest) + 1
        /\ Append(Simplest, x)[Len(Append(Simplest, x))] = x
    BY <1>7, <1>8, LastAppended
  <2>3. x.role = "user" /\ talk'[Len(talk')].role = "user"
    BY <1>5, <1>12 DEF x
  <2>4. NoCalls => Alternates(Simplest') /\ Len(Simplest') % 2 = 1
    <3>1. NoCalls => Alternates(Simplest) /\ Len(Simplest) % 2 # 1
      BY <1>1, <1>2 DEF TakingTurns
    <3>2. Len(Simplest) % 2 # 1 => (Len(Simplest) + 1) % 2 = 1
      BY <1>7
    <3>3. NoCalls => Alternates(Append(Simplest, x))
      BY <1>7, <1>8, <2>3, <3>1, <3>2, AlternatesLonger
    <3>4. QED
      BY <2>1, <2>2, <3>1, <3>2, <3>3
  <2>5. QED
    BY <1>1, <1>5, <1>6, <1>10, <1>11, <2>1, <2>2, <2>3, <2>4 DEF TakingTurns, Alternates
<1>13. CASE ~speaks
  <2>1. Simplest' = Simplest
    BY <1>7, <1>9, <1>13, CatEmpty
  <2>2. answers # <<>> /\ talk # <<>>
    <3>1. answers # <<>>
      BY <1>1, <1>13 DEF Chat!Pending
    <3>2. QED
      BY <1>2, <3>1 DEF TakingTurns
  <2>3. Simplest # <<>> /\ Simplest[Len(Simplest)].role = "assistant"
    BY <1>1, <1>2, <2>2 DEF TakingTurns
  <2>4. ~NoCalls
    <3>1. Len(answers) \in 1..Len(answers) /\ DOMAIN answers = 1..Len(answers)
      <4>1. Len(answers) \in Nat /\ Len(answers) # 0 /\ DOMAIN answers = 1..Len(answers)
        BY <2>2, LenProperties, EmptySeq DEF Conversing
      <4>2. QED
        BY <4>1
    <3>2. SUFFICES ASSUME answers[Len(answers)].calls = <<>> PROVE FALSE
      BY <3>1 DEF NoCalls
    <3>3. Chat!Pending = [i \in DOMAIN <<>> |-> <<>>[i].id]
      BY <2>2, <3>2 DEF Chat!Pending, Chat!Mapped
    <3>4. Chat!Pending \in Seq(Ids) /\ DOMAIN Chat!Pending = {}
      BY <3>3, PendingType
    <3>5. Chat!Pending = <<>>
      BY <3>4, EmptySeq, LenProperties
    <3>6. QED
      BY <1>1, <1>13, <3>5
  <2>5. talk'[Len(talk')].role # "user"
    BY <1>5, <1>13
  <2>6. QED
    BY <1>1, <1>5, <1>6, <1>10, <1>11, <2>1, <2>3, <2>4, <2>5 DEF TakingTurns
<1>14. QED
  BY <1>12, <1>13

LEMMA AnswerTakesTurns ==
    ASSUME Conversing, TakingTurns, NEW says \in BOOLEAN, NEW n \in Nat,
           NEW args \in [1..n -> Chat!Args \cup Chat!Inputs], NEW reason \in Chat!Reasons(args),
           Chat!Answer(says, args, reason)
    PROVE  TakingTurns'
<1>1. client' = client /\ Chat!Asked
  BY DEF Chat!Answer
<1>2. SUFFICES ASSUME client = "openai" PROVE TakingTurns'
  BY <1>1 DEF TakingTurns
<1>3. PICK a \in AnswerGiven :
        /\ answers' = Append(answers, a)
        /\ talk' = Append(talk, Chat!AnthropicToOpenAIResponse(a))
  BY <1>2, AnswerGot
<1> DEFINE m == Chat!AnthropicToOpenAIResponse(a)
           x == [role |-> m.role, text |-> m.text]
<1>4. m \in PlainMessage /\ m.role = "assistant"
  BY AnswerHeard DEF Called, PlainMessage
<1>5. x \in Spoken /\ Simple[m] = <<x>>
  <2>1. m.text \in Seq(Nat)
    BY AnswerHeard DEF Called
  <2>2. QED
    BY <1>4, <2>1 DEF Spoken, Simple, Simplified
<1>6. talk' = Append(talk, m)
  BY <1>3
<1> HIDE DEF m
<1>7. talk \in Seq(PlainMessage) /\ Simplest \in Seq(Spoken) /\ Len(Simplest) \in Nat
  BY <1>2, SimpleMapped, LenProperties DEF Conversing, Simplest
<1>8. talk' # <<>> /\ talk'[Len(talk')] = m
  BY <1>4, <1>6, <1>7, LastAppended
<1>9. ~Chat!Asked'
  BY <1>4, <1>8 DEF Chat!Asked
<1> HIDE DEF x
<1>10. Simplest' = Append(Simplest, x)
  <2>1. Simple \in [PlainMessage -> Seq(Spoken)]
    BY SimpleMapped
  <2>2. Mapped(Append(talk, m), Simple) = Mapped(talk, Simple) \o <<x>>
    BY <1>4, <1>5, <1>7, <2>1, MappedAppended
  <2>3. QED
    BY <1>5, <1>6, <1>7, <2>2, AppendIsConcat DEF Simplest
<1>11. /\ Append(Simplest, x) # <<>> /\ Len(Append(Simplest, x)) = Len(Simplest) + 1
       /\ Append(Simplest, x)[Len(Append(Simplest, x))] = x
  BY <1>5, <1>7, LastAppended
<1>12. x.role = "assistant"
  BY <1>4 DEF x
<1>13. NoCalls' => NoCalls
  <2>1. \A k \in DOMAIN answers : k \in DOMAIN answers' /\ answers'[k] = answers[k]
    BY <1>3, AppendedBehind DEF Conversing
  <2>2. QED
    BY <2>1 DEF NoCalls
<1>14. NoCalls => Alternates(Simplest') /\ Len(Simplest') % 2 # 1
  <2>1. NoCalls => Alternates(Simplest) /\ Len(Simplest) % 2 = 1
    BY <1>1, <1>2 DEF TakingTurns
  <2>2. Len(Simplest) % 2 = 1 => (Len(Simplest) + 1) % 2 # 1
    BY <1>7
  <2>3. NoCalls => Alternates(Append(Simplest, x))
    BY <1>5, <1>7, <1>12, <2>1, <2>2, AlternatesLonger
  <2>4. QED
    BY <1>10, <1>11, <2>1, <2>2, <2>3
<1>15. QED
  BY <1>4, <1>8, <1>9, <1>10, <1>11, <1>12, <1>13, <1>14 DEF TakingTurns, Alternates

(* An Anthropic client's messages, as they are converted one by one.       *)
Convert == [m \in BlockMessage |-> Converted(m)]

LEMMA ConvertMapped ==
    /\ Convert \in [BlockMessage -> Seq(PlainMessage)]
    /\ \A s \in Seq(BlockMessage) :
         /\ Chat!AnthropicToOpenAIRequest(s).messages = Mapped(s, Convert)
         /\ Mapped(s, Convert) \in Seq(PlainMessage)
<1>1. Convert \in [BlockMessage -> Seq(PlainMessage)]
  <2>1. ASSUME NEW m \in BlockMessage PROVE Converted(m) \in Seq(PlainMessage)
    <3>1. m.role \in {"user", "assistant"}
      BY DEF BlockMessage
    <3>2. QED
      BY <3>1, UserConverted, AssistantConverted
  <2>2. QED
    BY <2>1 DEF Convert
<1>2. ASSUME NEW s \in Seq(BlockMessage)
      PROVE  Chat!AnthropicToOpenAIRequest(s).messages = Mapped(s, Convert)
  <2>1. \A i \in DOMAIN s : s[i] \in BlockMessage
    BY ElementOfSeq, LenProperties
  <2>2. [i \in DOMAIN s |-> Converted(s[i])] = [i \in DOMAIN s |-> Convert[s[i]]]
    BY <2>1 DEF Convert
  <2>3. Chat!AnthropicToOpenAIRequest(s).messages = FlattenSeq([i \in DOMAIN s |-> Converted(s[i])])
    BY Flattened DEF Chat!AnthropicToOpenAIRequest, Chat!Collected, Chat!Mapped, Converted
  <2>4. QED
    BY <2>2, <2>3 DEF Mapped
<1>3. QED
  BY <1>1, <1>2, MappedType

LEMMA ResultBlocksAlone ==
    ASSUME NEW p \in Seq(Ids)
    PROVE  /\ ResultBlocks(p) \in Seq(Block)
           /\ Mapped(ResultBlocks(p), OfText) = <<>>
           /\ Mapped(ResultBlocks(p), OfResult) = ResultMessages(p)
<1> DEFINE s == ResultBlocks(p)
           k == [b \in ResultBlock |-> [role |-> "tool", call |-> b.call]]
           g == Singly(ResultBlock, k)
<1>1. \A i \in DOMAIN p : p[i] \in Ids
  BY ElementOfSeq, LenProperties
<1>2. s \in [DOMAIN p -> ResultBlock]
  BY <1>1 DEF ResultBlocks, ResultBlock
<1>3. s \in Seq(ResultBlock) /\ DOMAIN s = DOMAIN p
  BY <1>2, SameLength
<1>4. \A b \in ResultBlock : /\ b \in Block /\ OfText[b] = <<>>
                             /\ OfResult[b] = <<[role |-> "tool", call |-> b.call]>>
  BY DEF OfText, OfResult, Block, ResultBlock
<1>5. k \in [ResultBlock -> Result]
  BY DEF ResultBlock, Result
<1>6. \A b \in ResultBlock : OfResult[b] = g[b]
  BY <1>4 DEF Singly
<1>7. Each(s, k) = ResultMessages(p)
  BY <1>1, <1>2, <1>3 DEF Each, ResultBlocks, ResultBlock, ResultMessages
<1> HIDE DEF s, k, g
<1>8. Mapped(s, OfResult) = ResultMessages(p)
  <2>1. Mapped(s, OfResult) = Mapped(s, g)
    BY <1>3, <1>6, MappedSame
  <2>2. Mapped(s, g) = Each(s, k)
    BY <1>3, <1>5, MappedEach DEF g
  <2>3. QED
    BY <1>7, <2>1, <2>2
<1>9. Mapped(s, OfText) = <<>>
  BY <1>3, <1>4, MappedToNothing
<1>10. s \in Seq(Block)
  BY <1>3, SeqMonotonic DEF Block
<1>11. QED
  BY <1>8, <1>9, <1>10 DEF s

(* What a client's next message becomes.                                   *)
LEMMA BlocksAskedConvert ==
    ASSUME Conversing, client = "anthropic", NEW speaks \in BOOLEAN, Chat!Ask(speaks)
    PROVE  \E m \in BlockMessage :
             /\ talk' = Append(talk, m)
             /\ Converted(m) = Cat(IF speaks THEN <<[role |-> "user", text |-> <<Chat!Turn>>]>>
                                   ELSE <<>>, ResultMessages(Chat!Pending))
<1> DEFINE p == Chat!Pending
           n == Chat!Turn
           x == [type |-> "text", text |-> n]
           t == IF speaks THEN <<x>> ELSE <<>>
           r == ResultBlocks(p)
           m == [role |-> "user", blocks |-> Cat(r, t)]
           u == IF speaks THEN <<[role |-> "user", text |-> <<n>>]>> ELSE <<>>
<1>1. p \in Seq(Ids) /\ n \in Nat
  BY PendingType
<1>3. talk' = talk \o <<m>>
  BY Zenon DEF Chat!Ask, Chat!Mapped, ResultBlocks, Cat
<1> HIDE DEF p, n
<1>2. x \in Block /\ OfText[x] = <<n>> /\ OfResult[x] = <<>>
  BY <1>1 DEF Block, TextBlock, OfText, OfResult
<1> HIDE DEF x
<1>4. /\ t \in Seq(Block) /\ Mapped(t, OfResult) = <<>>
      /\ Mapped(t, OfText) = IF speaks THEN <<n>> ELSE <<>>
  <2>1. CASE speaks
    <3>1. OfText \in [Block -> Seq(Nat)] /\ OfResult \in [Block -> Seq(Result)]
      BY OfTypes
    <3>2. <<x>> \in Seq(Block) /\ Mapped(<<x>>, OfText) = <<n>> /\ Mapped(<<x>>, OfResult) = <<>>
      <4>1. x \in Block
        BY <1>2
      <4>2. <<x>> \in Seq(Block)
        BY <4>1
      <4>3. Mapped(<<x>>, OfText) = OfText[x]
        BY <3>1, <4>1, MappedOne
      <4>4. Mapped(<<x>>, OfResult) = OfResult[x]
        BY <3>1, <4>1, MappedOne
      <4>5. QED
        BY <1>2, <4>2, <4>3, <4>4
    <3>3. QED
      BY <2>1, <3>2
  <2>2. CASE ~speaks
    BY <2>2, EmptySeq, MappedEmpty
  <2>3. QED
    BY <2>1, <2>2
<1>5. /\ r \in Seq(Block) /\ Mapped(r, OfText) = <<>>
      /\ Mapped(r, OfResult) = ResultMessages(p)
  BY <1>1, ResultBlocksAlone
<1> HIDE DEF t, r
<1>6. Cat(r, t) \in Seq(Block)
  BY <1>4, <1>5, CatAssociative
<1>7. m \in BlockMessage /\ m.role = "user" /\ m.blocks = Cat(r, t)
  BY <1>6 DEF BlockMessage
<1>8. talk' = Append(talk, m)
  BY <1>3, <1>7, AppendIsConcat DEF Conversing
<1> HIDE DEF m
<1>9. Chat!TextsOf(m.blocks) = IF speaks THEN <<n>> ELSE <<>>
  <2>1. OfText \in [Block -> Seq(Nat)]
    BY OfTypes
  <2>2. r \in Seq(Block) /\ t \in Seq(Block)
    BY <1>4, <1>5
  <2>3. Mapped(Cat(r, t), OfText) = Cat(Mapped(r, OfText), Mapped(t, OfText))
    BY <2>1, <2>2, MappedCat
  <2>4. Mapped(t, OfText) \in Seq(Nat)
    BY <2>1, <2>2, MappedType
  <2>5. Cat(<<>>, Mapped(t, OfText)) = Mapped(t, OfText)
    BY <2>4, CatEmpty
  <2>6. QED
    BY <1>4, <1>5, <1>6, <1>7, <2>3, <2>5, BlocksMapped
<1>10. Chat!ResultsOf(m.blocks) = ResultMessages(p)
  <2>1. OfResult \in [Block -> Seq(Result)]
    BY OfTypes
  <2>2. r \in Seq(Block) /\ t \in Seq(Block)
    BY <1>4, <1>5
  <2>3. Mapped(Cat(r, t), OfResult) = Cat(Mapped(r, OfResult), Mapped(t, OfResult))
    BY <2>1, <2>2, MappedCat
  <2>4. Mapped(r, OfResult) \in Seq(Result)
    BY <2>1, <2>2, MappedType
  <2>5. Cat(Mapped(r, OfResult), <<>>) = Mapped(r, OfResult)
    BY <2>4, CatEmpty
  <2>6. QED
    BY <1>4, <1>5, <1>6, <1>7, <2>3, <2>5, BlocksMapped
<1>11. Converted(m) = Cat(u, ResultMessages(p))
  <2>1. Converted(m) = Cat(IF Chat!TextsOf(m.blocks) = <<>> THEN <<>>
                           ELSE <<[role |-> "user", text |-> Chat!TextsOf(m.blocks)]>>,
                           Chat!ResultsOf(m.blocks))
    BY <1>7, UserConverted
  <2>2. <<n>> # <<>>
    OBVIOUS
  <2>3. (IF Chat!TextsOf(m.blocks) = <<>> THEN <<>>
         ELSE <<[role |-> "user", text |-> Chat!TextsOf(m.blocks)]>>) = u
    <3>1. CASE speaks
      BY <1>9, <2>2, <3>1
    <3>2. CASE ~speaks
      BY <1>9, <3>2
    <3>3. QED
      BY <3>1, <3>2
  <2>4. QED
    BY <1>10, <2>1, <2>3, Zenon
<1>12. QED
  BY <1>7, <1>8, <1>11, Zenon DEF u, p, n

(* In messages m, the answer a stands at place i, and between i and place  *)
(* e the results of its calls, with the client's words ahead of them.      *)
BackAt(m, i, a) ==
    m[i] = [role |-> "assistant", text |-> a.text, calls |-> CallsBack(a.calls)]

Behind(m, i, e, a) ==
    \E said \in {0, 1} :
      /\ e = i + said + Len(a.calls)
      /\ \A j \in 1..Len(a.calls) : m[i + said + j] = [role |-> "tool", call |-> a.calls[j].id]
      /\ said = 1 => m[i + 1].role = "user"

(* The answers s stand in m at the places p, every one but the last with   *)
(* its results behind it.                                                  *)
ComesBack(m, p, s) ==
    /\ p \in [1..Len(s) -> 1..Len(m)]
    /\ \A i, j \in 1..Len(s) : i < j => p[i] < p[j]
    /\ \A i \in 1..Len(m) : m[i].role = "assistant" => \E k \in 1..Len(s) : p[k] = i
    /\ \A k \in 1..Len(s) : BackAt(m, p[k], s[k])
    /\ \A k \in 1..Len(s) : k < Len(s) => Behind(m, p[k], p[k + 1] - 1, s[k])

LastAhead(m, p, s) == Len(s) > 0 => p[Len(s)] = Len(m)
AllBehind(m, p, s) == Len(s) > 0 => Behind(m, p[Len(s)], Len(m), s[Len(s)])

LEMMA BehindLonger ==
    ASSUME NEW m, NEW v, NEW n \in Nat, NEW i \in 1..n, NEW e \in 0..n, NEW a, Len(a.calls) \in Nat,
           \A x \in 1..n : v[x] = m[x], Behind(m, i, e, a)
    PROVE  Behind(v, i, e, a)
<1>1. PICK said \in {0, 1} :
        /\ e = i + said + Len(a.calls)
        /\ \A j \in 1..Len(a.calls) : m[i + said + j] = [role |-> "tool", call |-> a.calls[j].id]
        /\ said = 1 => m[i + 1].role = "user"
  BY DEF Behind
<1>2. (\A j \in 1..Len(a.calls) : i + said + j \in 1..n) /\ (said = 1 => i + 1 \in 1..n)
  <2> DEFINE l == Len(a.calls)
  <2>1. l \in Nat /\ e = i + said + l /\ said \in Nat
    BY <1>1
  <2> HIDE DEF l
  <2>2. (\A j \in 1..l : i + said + j \in 1..n) /\ (said = 1 => i + 1 \in 1..n)
    BY <2>1
  <2>3. QED
    BY <2>2 DEF l
<1>4. \A j \in 1..Len(a.calls) : v[i + said + j] = [role |-> "tool", call |-> a.calls[j].id]
  BY <1>1, <1>2
<1>5. said = 1 => v[i + 1].role = "user"
  BY <1>1, <1>2
<1>6. QED
  BY <1>1, <1>4, <1>5 DEF Behind

LEMMA AnswersType ==
    ASSUME NEW s \in Seq(AnswerGiven)
    PROVE  /\ Len(s) \in Nat /\ DOMAIN s = 1..Len(s)
           /\ \A k \in 1..Len(s) : s[k] \in AnswerGiven /\ s[k].calls \in Seq(AnswerCall)
                                   /\ Len(s[k].calls) \in Nat
<1>1. Len(s) \in Nat /\ DOMAIN s = 1..Len(s)
  BY LenProperties
<1>2. ASSUME NEW k \in 1..Len(s)
      PROVE  s[k] \in AnswerGiven /\ s[k].calls \in Seq(AnswerCall) /\ Len(s[k].calls) \in Nat
  <2>1. s[k] \in AnswerGiven
    BY <1>1, ElementOfSeq
  <2>2. s[k].calls \in Seq(AnswerCall)
    BY <2>1 DEF AnswerGiven
  <2>3. QED
    BY <2>1, <2>2, LenProperties
<1>3. QED
  BY <1>1, <1>2

(* What the client adds takes no answer from its place.                    *)
LEMMA MessagesBehind ==
    ASSUME NEW m \in Seq(PlainMessage), NEW u \in Seq(Result \cup Spoken),
           \A i \in DOMAIN u : u[i].role # "assistant",
           NEW s \in Seq(AnswerGiven), NEW p, ComesBack(m, p, s)
    PROVE  ComesBack(Cat(m, u), p, s)
<1> DEFINE v == Cat(m, u)
<1>1. u \in Seq(PlainMessage)
  BY SeqMonotonic DEF PlainMessage
<1>2. /\ v \in Seq(PlainMessage) /\ Len(v) = Len(m) + Len(u) /\ Len(m) \in Nat /\ Len(u) \in Nat
      /\ \A k \in 1..Len(m) : v[k] = m[k]
      /\ \A k \in Len(m) + 1 .. Len(m) + Len(u) : v[k] = u[k - Len(m)]
      /\ DOMAIN u = 1..Len(u)
  BY <1>1, ConcatProperties, LenProperties DEF Cat
<1> HIDE DEF v
<1>3. /\ p \in [1..Len(s) -> 1..Len(m)]
      /\ \A i, j \in 1..Len(s) : i < j => p[i] < p[j]
  BY DEF ComesBack
<1>4. Len(s) \in Nat /\ \A k \in 1..Len(s) : Len(s[k].calls) \in Nat
  BY AnswersType
<1>5. p \in [1..Len(s) -> 1..Len(v)]
  BY <1>2, <1>3
<1>6. ASSUME NEW i \in 1..Len(v), v[i].role = "assistant" PROVE \E k \in 1..Len(s) : p[k] = i
  <2>1. CASE i <= Len(m)
    <3>1. i \in 1..Len(m) /\ m[i].role = "assistant"
      BY <1>2, <1>6, <2>1
    <3>2. QED
      BY <3>1 DEF ComesBack
  <2>2. CASE i > Len(m)
    <3>1. Len(v) = Len(m) + Len(u) /\ Len(m) \in Nat /\ Len(u) \in Nat
      BY <1>2
    <3>2. i \in Len(m) + 1 .. Len(m) + Len(u) /\ i - Len(m) \in 1..Len(u)
      BY <2>2, <3>1
    <3>3. v[i] = u[i - Len(m)]
      BY <1>2, <3>2
    <3>4. DOMAIN u = 1..Len(u)
      BY <1>2
    <3>5. QED
      BY <1>6, <3>2, <3>3, <3>4
  <2>3. QED
    BY <1>2, <2>1, <2>2
<1>7. ASSUME NEW k \in 1..Len(s) PROVE BackAt(v, p[k], s[k])
  BY <1>2, <1>3 DEF ComesBack, BackAt
<1>8. ASSUME NEW k \in 1..Len(s), k < Len(s) PROVE Behind(v, p[k], p[k + 1] - 1, s[k])
  <2>1. p[k] \in 1..Len(m) /\ k + 1 \in 1..Len(s) /\ p[k + 1] \in 1..Len(m)
    BY SMTT(30), <1>3, <1>4, <1>8
  <2>2. p[k + 1] - 1 \in 0..Len(m) /\ Len(s[k].calls) \in Nat
    BY <1>2, <1>4, <2>1
  <2>3. Behind(m, p[k], p[k + 1] - 1, s[k])
    BY <1>8 DEF ComesBack
  <2>4. QED
    BY <1>2, <2>1, <2>2, <2>3, BehindLonger
<1>9. QED
  BY <1>3, <1>5, <1>6, <1>7, <1>8 DEF ComesBack, v

(* v is x and then y, place by place.                                      *)
InTwo(v, x, y) ==
    /\ Len(x) \in Nat /\ Len(y) \in Nat /\ Len(v) = Len(x) + Len(y)
    /\ \A k \in 1..Len(x) : v[k] = x[k]
    /\ \A k \in 1..Len(y) : v[Len(x) + k] = y[k]

LEMMA TwoInPlace ==
    ASSUME NEW S, NEW x \in Seq(S), NEW y \in Seq(S)
    PROVE  Cat(x, y) \in Seq(S) /\ InTwo(Cat(x, y), x, y)
<1> DEFINE v == x \o y
           n == Len(x)
           d == Len(y)
<1>1. /\ n \in Nat /\ d \in Nat
      /\ v \in Seq(S) /\ Len(v) = n + d
      /\ \A k \in 1..n : v[k] = x[k]
      /\ \A k \in n + 1 .. n + d : v[k] = y[k - n]
  BY ConcatProperties, LenProperties
<1> HIDE DEF v, n, d
<1>2. ASSUME NEW k \in 1..d PROVE v[n + k] = y[k]
  <2>1. PICK i \in n + 1 .. n + d : i = n + k /\ i - n = k
    BY <1>1
  <2>2. v[i] = y[i - n]
    BY <1>1
  <2>3. QED
    BY <2>1, <2>2
<1>3. v = Cat(x, y)
  BY DEF v, Cat
<1>4. InTwo(v, x, y)
  BY <1>1, <1>2 DEF InTwo, n, d
<1>5. QED
  BY <1>1, <1>3, <1>4

InThree(v, x, y, z) ==
    /\ Len(x) \in Nat /\ Len(y) \in Nat /\ Len(z) \in Nat
    /\ Len(v) = Len(x) + Len(y) + Len(z)
    /\ \A k \in 1..Len(y) : v[Len(x) + k] = y[k]
    /\ \A k \in 1..Len(z) : v[Len(x) + Len(y) + k] = z[k]

LEMMA ThreeInPlace ==
    ASSUME NEW S, NEW x \in Seq(S), NEW y \in Seq(S), NEW z \in Seq(S)
    PROVE  InThree(Cat(x, Cat(y, z)), x, y, z)
<1> DEFINE u == Cat(y, z)
           v == Cat(x, u)
           n == Len(x)
           d == Len(y)
           l == Len(z)
<1>1. u \in Seq(S) /\ InTwo(u, y, z)
  BY TwoInPlace
<1> HIDE DEF u
<1>2. InTwo(v, x, u)
  BY <1>1, TwoInPlace
<1> HIDE DEF v
<1>3. /\ n \in Nat /\ d \in Nat /\ l \in Nat /\ Len(u) = d + l /\ Len(v) = n + (d + l)
      /\ \A k \in 1..d : u[k] = y[k]
      /\ \A k \in 1..l : u[d + k] = z[k]
      /\ \A k \in 1 .. d + l : v[n + k] = u[k]
  BY <1>1, <1>2 DEF InTwo
<1> HIDE DEF n, d, l
<1>4. ASSUME NEW k \in 1..d PROVE v[n + k] = y[k]
  <2>1. k \in 1 .. d + l
    BY <1>3
  <2>2. QED
    BY <1>3, <2>1
<1>5. ASSUME NEW k \in 1..l PROVE v[n + d + k] = z[k]
  <2>1. PICK i \in 1 .. d + l : i = d + k /\ n + i = n + d + k
    BY <1>3
  <2>2. v[n + i] = u[i]
    BY <1>3
  <2>3. u[d + k] = z[k]
    BY <1>3
  <2>4. QED
    BY <2>1, <2>2, <2>3
<1>6. Len(v) = n + d + l
  BY <1>3
<1>7. QED
  BY <1>3, <1>4, <1>5, <1>6 DEF InThree, u, v, n, d, l

(* The results come right behind the answer whose they are.                *)
IdsOf(ids, a) == Len(ids) = Len(a.calls) /\ \A j \in 1..Len(a.calls) : ids[j] = a.calls[j].id

LEMMA ResultsClose ==
    ASSUME NEW m \in Seq(PlainMessage), NEW s \in Seq(AnswerGiven), Len(s) > 0,
           NEW p, LastAhead(m, p, s),
           NEW t \in Seq(Spoken), Len(t) \in {0, 1}, \A i \in DOMAIN t : t[i].role = "user",
           NEW ids \in Seq(Ids), IdsOf(ids, s[Len(s)])
    PROVE  AllBehind(Cat(m, Cat(t, ResultMessages(ids))), p, s)
<1> DEFINE a == s[Len(s)]
           r == ResultMessages(ids)
           v == Cat(m, Cat(t, r))
           n == Len(m)
           l == Len(a.calls)
           d == Len(t)
<1>1. r \in Seq(Result) /\ Len(r) = l
  BY ResultsType DEF IdsOf
<1>2. \A j \in 1..l : r[j] = [role |-> "tool", call |-> a.calls[j].id]
  <2>1. DOMAIN ids = 1..Len(ids)
    BY LenProperties
  <2>2. \A j \in DOMAIN ids : r[j] = [role |-> "tool", call |-> ids[j]]
    BY DEF ResultMessages
  <2>3. QED
    BY <2>1, <2>2 DEF IdsOf
<1> HIDE DEF r, a
<1>3. t \in Seq(PlainMessage) /\ r \in Seq(PlainMessage)
  BY <1>1, SeqMonotonic DEF PlainMessage
<1> HIDE DEF v
<1>4. /\ n \in Nat /\ d \in Nat /\ l \in Nat /\ Len(v) = n + d + l
      /\ \A k \in 1..d : v[n + k] = t[k]
      /\ \A k \in 1..l : v[n + d + k] = r[k]
  <2>1. InThree(v, m, t, r)
    BY <1>3, ThreeInPlace DEF v
  <2> HIDE DEF l
  <2>2. QED
    BY <1>1, <2>1 DEF InThree
<1>5. p[Len(s)] = n
  BY DEF LastAhead
<1> HIDE DEF n, l
<1>6. \A j \in 1..l : v[n + d + j] = [role |-> "tool", call |-> a.calls[j].id]
  BY <1>1, <1>2, <1>4
<1>7. d = 1 => v[n + 1].role = "user"
  <2>1. DOMAIN t = 1..d
    BY LenProperties
  <2>2. d = 1 => 1 \in DOMAIN t
    BY <2>1
  <2>3. QED
    BY <1>4, <2>1, <2>2
<1>8. d \in {0, 1}
  OBVIOUS
<1> HIDE DEF d
<1>9. Behind(v, n, n + d + l, a)
  BY <1>6, <1>7, <1>8 DEF Behind, l
<1>10. QED
  BY <1>4, <1>5, <1>9 DEF AllBehind, a, v, r

(* The next answer comes behind the results of the last.                   *)
LEMMA AnswerOpens ==
    ASSUME NEW m \in Seq(PlainMessage), NEW s \in Seq(AnswerGiven), NEW p,
           ComesBack(m, p, s), AllBehind(m, p, s), NEW a \in AnswerGiven, NEW x \in PlainMessage,
           x = [role |-> "assistant", text |-> a.text, calls |-> CallsBack(a.calls)]
    PROVE  \E q : ComesBack(Append(m, x), q, Append(s, a)) /\ LastAhead(Append(m, x), q, Append(s, a))
<1> DEFINE v == Append(m, x)
           w == Append(s, a)
           n == Len(s)
           l == Len(m)
           q == [k \in 1 .. n + 1 |-> IF k <= n THEN p[k] ELSE l + 1]
<1>1. /\ Len(v) = l + 1 /\ l \in Nat /\ v[l + 1] = x
      /\ \A i \in 1..l : v[i] = m[i]
  BY Appended
<1>2. /\ Len(w) = n + 1 /\ n \in Nat /\ w[n + 1] = a
      /\ \A k \in 1..n : w[k] = s[k]
  BY Appended
<1>3. \A k \in 1..n : Len(s[k].calls) \in Nat
  BY AnswersType
<1>4. /\ p \in [1..n -> 1..l] /\ \A i, j \in 1..n : i < j => p[i] < p[j]
  BY DEF ComesBack
<1>5. (\A k \in 1..n : q[k] = p[k]) /\ q[n + 1] = l + 1
  BY <1>2
<1>6. q \in [1 .. n + 1 -> 1 .. l + 1]
  <2>1. ASSUME NEW k \in 1 .. n + 1 PROVE (IF k <= n THEN p[k] ELSE l + 1) \in 1 .. l + 1
    <3>1. CASE k <= n
      <4>1. k \in 1..n
        BY <1>2, <3>1
      <4>2. p[k] \in 1..l
        BY <1>4, <4>1
      <4>3. QED
        BY <1>1, <3>1, <4>2
    <3>2. CASE ~(k <= n)
      BY <1>1, <3>2
    <3>3. QED
      BY <3>1, <3>2
  <2>2. QED
    BY <2>1
<1> HIDE DEF v, w, q, n, l
<1>7. ASSUME NEW k \in 1 .. n + 1 PROVE k \in 1..n \/ k = n + 1
  BY <1>2
<1>8. ASSUME NEW i \in 1 .. n + 1, NEW j \in 1 .. n + 1, i < j PROVE q[i] < q[j]
  <2>1. i \in 1..n
    BY <1>2, <1>8
  <2>2. CASE j \in 1..n
    BY <1>4, <1>5, <1>8, <2>1, <2>2
  <2>3. CASE j = n + 1
    <3>1. q[i] \in 1..l /\ q[j] = l + 1
      BY <1>4, <1>5, <2>1, <2>3
    <3>2. QED
      BY <1>1, <3>1
  <2>4. QED
    BY <1>7, <2>2, <2>3
<1>9. ASSUME NEW i \in 1 .. l + 1, v[i].role = "assistant" PROVE \E k \in 1 .. n + 1 : q[k] = i
  <2>1. CASE i = l + 1
    <3>1. n + 1 \in 1 .. n + 1
      BY <1>2
    <3>2. QED
      BY <1>5, <2>1, <3>1
  <2>2. CASE i # l + 1
    <3>1. i \in 1..l
      BY <1>1, <2>2
    <3>2. m[i].role = "assistant"
      BY <1>1, <1>9, <3>1
    <3>3. PICK k \in 1..n : p[k] = i
      BY <3>1, <3>2 DEF ComesBack, n, l
    <3>4. k \in 1 .. n + 1
      BY <1>2
    <3>5. QED
      BY <1>5, <3>3, <3>4
  <2>3. QED
    BY <2>1, <2>2
<1>10. ASSUME NEW k \in 1 .. n + 1 PROVE BackAt(v, q[k], w[k])
  <2>1. CASE k \in 1..n
    <3>1. p[k] \in 1..l /\ BackAt(m, p[k], s[k])
      BY <1>4, <2>1 DEF ComesBack, n
    <3>2. QED
      BY <1>1, <1>2, <1>5, <2>1, <3>1 DEF BackAt
  <2>2. CASE k = n + 1
    BY <1>1, <1>2, <1>5, <2>2 DEF BackAt
  <2>3. QED
    BY <1>7, <2>1, <2>2
<1>11. ASSUME NEW k \in 1 .. n + 1, k < n + 1 PROVE Behind(v, q[k], q[k + 1] - 1, w[k])
  <2>1. k \in 1..n /\ p[k] \in 1..l /\ Len(s[k].calls) \in Nat
    BY <1>2, <1>3, <1>4, <1>11
  <2>2. CASE k < n
    <3>1. k + 1 \in 1..n /\ p[k + 1] \in 1..l
      BY <1>2, <1>4, <2>1, <2>2
    <3>2. Behind(m, p[k], p[k + 1] - 1, s[k])
      BY <2>1, <2>2 DEF ComesBack, n
    <3>3. p[k + 1] - 1 \in 0..l
      BY <1>1, <3>1
    <3>4. Behind(v, p[k], p[k + 1] - 1, s[k])
      BY <1>1, <2>1, <3>2, <3>3, BehindLonger
    <3>5. QED
      BY <1>2, <1>5, <2>1, <3>1, <3>4
  <2>3. CASE k = n
    <3>1. n > 0
      BY <1>2, <2>1
    <3>2. Behind(m, p[n], l, s[n])
      BY <3>1 DEF AllBehind, n, l
    <3>3. Behind(v, p[n], l, s[n])
      <4>1. l \in 0..l
        BY <1>1
      <4>2. QED
        BY <1>1, <2>1, <2>3, <3>2, <4>1, BehindLonger
    <3>4. q[k + 1] - 1 = l
      BY <1>1, <1>5, <2>3
    <3>5. QED
      BY <1>2, <1>5, <2>1, <2>3, <3>3, <3>4
  <2>4. QED
    BY <1>2, <1>11, <2>1, <2>2, <2>3
<1>12. ComesBack(v, q, w)
  BY <1>1, <1>2, <1>6, <1>8, <1>9, <1>10, <1>11 DEF ComesBack
<1>13. LastAhead(v, q, w)
  BY <1>1, <1>2, <1>5 DEF LastAhead
<1>14. QED
  BY <1>12, <1>13 DEF v, w

(* Numbers that rise, and all of S among them, are in the one order.       *)
Rising(s, n, S) ==
    /\ s \in [1..n -> S]
    /\ \A i, j \in 1..n : i < j => s[i] < s[j]

LEMMA RisingNotBelow ==
    ASSUME NEW S \in SUBSET Nat, NEW n \in Nat, NEW s, NEW t, Rising(s, n, S), Rising(t, n, S),
           \A x \in S : \E i \in 1..n : t[i] = x,
           NEW i \in 1..n, \A j \in 1..n : j < i => s[j] = t[j]
    PROVE  t[i] <= s[i]
<1>1. SUFFICES ASSUME ~(t[i] <= s[i]) PROVE FALSE
  OBVIOUS
<1>2. s[i] \in S /\ t[i] \in S
  BY DEF Rising
<1>3. s[i] \in Nat /\ t[i] \in Nat
  BY <1>2
<1>4. PICK j \in 1..n : t[j] = s[i]
  BY <1>2
<1>5. j < i
  <2>1. CASE i < j
    <3>1. t[i] < t[j]
      BY <2>1 DEF Rising
    <3>2. QED
      BY <1>1, <1>3, <1>4, <3>1
  <2>2. CASE i = j
    BY <1>1, <1>3, <1>4, <2>2
  <2>3. QED
    BY <2>1, <2>2
<1>6. s[j] = s[i] /\ s[j] < s[i]
  BY <1>4, <1>5 DEF Rising
<1>7. QED
  BY <1>3, <1>6

LEMMA RisingOnce ==
    ASSUME NEW S \in SUBSET Nat, NEW n \in Nat, NEW s, NEW t, Rising(s, n, S), Rising(t, n, S),
           \A x \in S : \E i \in 1..n : s[i] = x,
           \A x \in S : \E i \in 1..n : t[i] = x
    PROVE  s = t
<1> DEFINE Bad == {i \in 1..n : s[i] # t[i]}
<1>1. SUFFICES ASSUME Bad # {} PROVE FALSE
  BY DEF Rising
<1>2. PICK i \in Bad : \A j \in Bad : i <= j
  <2>1. Bad \subseteq Nat
    OBVIOUS
  <2> HIDE DEF Bad
  <2>2. QED
    BY <1>1, <2>1, Least
<1>3. i \in 1..n /\ s[i] # t[i]
  BY <1>2
<1>4. \A j \in 1..n : j < i => s[j] = t[j]
  BY <1>2
<1> HIDE DEF Bad
<1>5. t[i] <= s[i]
  BY <1>3, <1>4, RisingNotBelow
<1>6. s[i] <= t[i]
  <2>1. \A j \in 1..n : j < i => t[j] = s[j]
    BY <1>4
  <2>2. QED
    BY <1>3, <2>1, RisingNotBelow
<1>7. s[i] \in Nat /\ t[i] \in Nat
  BY <1>3 DEF Rising
<1>8. QED
  BY <1>3, <1>5, <1>6, <1>7

LEMMA RisingCounts ==
    ASSUME NEW S \in SUBSET Nat, NEW n \in Nat, NEW p, Rising(p, n, S),
           \A x \in S : \E i \in 1..n : p[i] = x
    PROVE  /\ IsFiniteSet(S) /\ Cardinality(S) = n
           /\ \A t : Rising(t, n, S) => t = p
<1> DEFINE R == {r \in Nat \X Nat : r[1] < r[2]}
<1>1. p \in Bijection(1..n, S)
  <2>1. \A i \in 1..n : p[i] \in Nat
    BY DEF Rising
  <2>2. ASSUME NEW i \in 1..n, NEW j \in 1..n, p[i] = p[j] PROVE i = j
    <3>1. i < j \/ j < i \/ i = j
      OBVIOUS
    <3>2. (i < j => p[i] < p[j]) /\ (j < i => p[j] < p[i])
      BY DEF Rising
    <3>3. QED
      BY <2>1, <2>2, <3>1, <3>2
  <2>3. QED
    BY <2>2 DEF Rising, Bijection, Injection, Surjection, IsInjective
<1>2. IsFiniteSet(1..n) /\ Cardinality(1..n) = n
  BY FS_Interval
<1>3. IsFiniteSet(S) /\ Cardinality(S) = n
  <2>1. ExistsBijection(1..n, S)
    BY <1>1 DEF ExistsBijection
  <2>2. QED
    BY <1>2, <2>1, FS_Bijection
<1>4. Orders(R, S)
  BY DEF Orders
<1>5. ASSUME NEW t, Rising(t, n, S) PROVE t = p
  <2>1. Lists(t, R, S)
    <3>1. \A i \in 1..n : t[i] \in Nat
      BY <1>5 DEF Rising
    <3>2. QED
      BY <1>3, <1>5, <3>1 DEF Rising, Lists
  <2> HIDE DEF R
  <2>2. \A x \in S : \E i \in 1..n : t[i] = x
    BY <1>3, <1>4, <2>1, ListsAll
  <2>3. QED
    BY <1>5, <2>2, RisingOnce
<1>6. QED
  BY <1>3, <1>5

(* The results behind an answer: one for every call, in order, and no      *)
(* other.                                                                  *)
ToolPlaces(m, i, e) == {x \in i + 1 .. e : m[x].role = "tool"}

ResultsPlaced(m, P, c) ==
    \E place \in [DOMAIN c -> P] :
      /\ \A x, y \in DOMAIN place : x < y => place[x] < place[y]
      /\ \A x \in P : \E y \in DOMAIN place : x = place[y]
      /\ \A y \in DOMAIN place : m[place[y]].call = c[y].id

LEMMA PlacedBehind ==
    ASSUME NEW m, NEW i \in Nat, NEW c \in Seq(AnswerCall), NEW said \in {0, 1}, NEW e,
           e = i + said + Len(c), said = 1 => m[i + 1].role = "user",
           \A j \in 1..Len(c) : m[i + said + j] = [role |-> "tool", call |-> c[j].id]
    PROVE  ResultsPlaced(m, ToolPlaces(m, i, e), c)
<1> DEFINE l == Len(c)
           P == ToolPlaces(m, i, e)
           place == [j \in DOMAIN c |-> i + said + j]
<1>1. l \in Nat /\ DOMAIN c = 1..l /\ e = i + said + l
  BY LenProperties
<1>2. ASSUME NEW j \in 1..l
      PROVE  m[i + said + j].role = "tool" /\ m[i + said + j].call = c[j].id
  <2>1. m[i + said + j] = [role |-> "tool", call |-> c[j].id]
    OBVIOUS
  <2>2. QED
    BY <2>1
<1>3. said = 1 => m[i + 1].role # "tool"
  OBVIOUS
<1> HIDE DEF l
<1>4. ASSUME NEW j \in 1..l PROVE i + said + j \in i + 1 .. e
  BY <1>1
<1>5. place \in [DOMAIN c -> P] /\ DOMAIN place = 1..l /\ \A j \in 1..l : place[j] = i + said + j
  BY <1>1, <1>2, <1>4 DEF ToolPlaces
<1>6. ASSUME NEW x \in P PROVE \E y \in 1..l : x = i + said + y
  <2>1. x \in i + 1 .. e /\ m[x].role = "tool"
    BY DEF ToolPlaces
  <2>2. x # i + said \/ said = 0
    BY <1>3, <2>1
  <2>3. x - (i + said) \in 1..l /\ x = i + said + (x - (i + said))
    BY <1>1, <2>1, <2>2
  <2>4. QED
    BY <2>3
<1> HIDE DEF place, P
<1>7. \A x, y \in 1..l : x < y => place[x] < place[y]
  BY <1>1, <1>5
<1>8. QED
  <2>1. \A x \in P : \E y \in DOMAIN place : x = place[y]
    BY <1>5, <1>6
  <2>2. \A y \in DOMAIN place : m[place[y]].call = c[y].id
    BY <1>2, <1>5
  <2>3. QED
    BY <1>5, <1>7, <2>1, <2>2 DEF ResultsPlaced, P

LEMMA BackComes ==
    ASSUME Conversing, Chat!Asked, client = "anthropic",
           chatSent.messages \in Seq(PlainMessage), NEW p,
           ComesBack(chatSent.messages, p, answers), AllBehind(chatSent.messages, p, answers)
    PROVE  Chat!AnswersComeBack
<1> DEFINE m == chatSent.messages
           n == Len(answers)
           own == {i \in DOMAIN m : m[i].role = "assistant"}
           End(k) == IF k < n THEN p[k + 1] - 1 ELSE Len(m)
<1>1. /\ n \in Nat /\ DOMAIN answers = 1..n
      /\ \A k \in 1..n : answers[k].calls \in Seq(AnswerCall)
  BY AnswersType DEF Conversing
<1>2. Len(m) \in Nat /\ DOMAIN m = 1..Len(m)
  BY LenProperties
<1>3. p \in [1..n -> 1..Len(m)]
  BY DEF ComesBack
<1>4. \A k \in 1..n : m[p[k]] = [role |-> "assistant", text |-> answers[k].text,
                                 calls |-> CallsBack(answers[k].calls)]
  BY DEF ComesBack, BackAt
<1>5. Rising(p, n, own) /\ \A x \in own : \E i \in 1..n : p[i] = x
  <2>1. ASSUME NEW k \in 1..n PROVE p[k] \in own
    <3>1. m[p[k]] = [role |-> "assistant", text |-> answers[k].text,
                     calls |-> CallsBack(answers[k].calls)]
      BY <1>4
    <3>2. m[p[k]].role = "assistant"
      BY <3>1
    <3>3. p[k] \in DOMAIN m
      BY <1>2, <1>3
    <3>4. QED
      BY <3>2, <3>3
  <2>2. p \in [1..n -> own]
    BY <1>3, <2>1
  <2>3. \A i, j \in 1..n : i < j => p[i] < p[j]
    BY DEF ComesBack
  <2>4. \A x \in own : \E i \in 1..n : p[i] = x
    BY <1>2 DEF ComesBack
  <2> HIDE DEF own, n
  <2>5. QED
    BY <2>2, <2>3, <2>4 DEF Rising
<1>6. own \in SUBSET Nat
  BY <1>2
<1>7. Cardinality(own) = n /\ \A t : Rising(t, n, own) => t = p
  <2> HIDE DEF own, n
  <2>1. QED
    BY <1>1, <1>5, <1>6, RisingCounts
<1>8. Chat!Cardinality(own) = n
  <2>1. Chat!Cardinality(own) = Cardinality(own)
    BY Zenon DEF Cardinality, Chat!Cardinality
  <2>2. QED
    BY <1>7, <2>1
<1> DEFINE Own == CHOOSE s \in [1..Chat!Cardinality(own) -> own] : \A i, j \in DOMAIN s : i < j => s[i] < s[j]
<1>11. (CHOOSE s \in [1..Chat!Cardinality(own) -> own] : \A i, j \in DOMAIN s : i < j => s[i] < s[j]) = p
  <2>0. Chat!Cardinality(own) = n
    BY <1>8
  <2> HIDE DEF own, n
  <2>1. p \in [1..Chat!Cardinality(own) -> own] /\ \A i, j \in DOMAIN p : i < j => p[i] < p[j]
    BY <1>5, <2>0 DEF Rising
  <2>2. \A s \in [1..Chat!Cardinality(own) -> own] : (\A i, j \in DOMAIN s : i < j => s[i] < s[j]) => s = p
    BY <1>7, <2>0 DEF Rising
  <2>3. QED
    BY <2>1, <2>2, Zenon
<1>10. ASSUME NEW k \in 1..n
       PROVE  CallsBack(answers[k].calls)
                = [i \in DOMAIN answers[k].calls |->
                     [id |-> answers[k].calls[i].id,
                      args |-> IF answers[k].calls[i].args \in {"none", "{json}"}
                                 THEN "{json}" ELSE "quoted"]]
  <2> DEFINE c == answers[k].calls
  <2>1. \A a : Chat!ArgsOf(Chat!InputOf(a)) = IF a \in {"none", "{json}"} THEN "{json}" ELSE "quoted"
    <3>1. ASSUME NEW a, a \in {"none", "{json}"} PROVE Chat!ArgsOf(Chat!InputOf(a)) = "{json}"
      BY <3>1, Zenon DEF Chat!ArgsOf, Chat!InputOf
    <3>2. ASSUME NEW a, a \notin {"none", "{json}"} PROVE Chat!ArgsOf(Chat!InputOf(a)) = "quoted"
      BY <3>2, Zenon DEF Chat!ArgsOf, Chat!InputOf
    <3>3. QED
      BY <3>1, <3>2, Zenon
  <2> HIDE DEF c
  <2>2. CallsBack(c) = [i \in DOMAIN c |->
                          [id |-> c[i].id,
                           args |-> IF c[i].args \in {"none", "{json}"} THEN "{json}" ELSE "quoted"]]
    BY <2>1, Zenon DEF CallsBack
  <2>3. QED
    BY <2>2, Zenon DEF c
<1>9. ASSUME NEW k \in 1..n
      PROVE  /\ m[p[k]].text = answers[k].text
             /\ m[p[k]].calls = [i \in DOMAIN answers[k].calls |->
                                         [id |-> answers[k].calls[i].id,
                                          args |-> IF answers[k].calls[i].args \in {"none", "{json}"}
                                                     THEN "{json}" ELSE "quoted"]]
             /\ ResultsPlaced(m, ToolPlaces(m, p[k], End(k)), answers[k].calls)
  <2>1. p[k] \in 1..Len(m) /\ answers[k].calls \in Seq(AnswerCall)
    BY <1>1, <1>3
  <2>2. Behind(m, p[k], End(k), answers[k]) /\ End(k) <= Len(m)
    <3>1. CASE k < n
      <4>1. k + 1 \in 1..n /\ p[k + 1] \in 1..Len(m)
        BY <1>1, <1>3, <3>1
      <4>2. p[k + 1] - 1 <= Len(m)
        BY <1>2, <4>1
      <4>3. QED
        BY <3>1, <4>2 DEF ComesBack
    <3>2. CASE ~(k < n)
      <4>1. k = n /\ n > 0
        <5>1. n \in Nat
          BY <1>1
        <5> HIDE DEF n
        <5>2. QED
          BY <3>2, <5>1
      <4>2. QED
        BY <1>2, <3>2, <4>1 DEF AllBehind
    <3>3. QED
      BY <3>1, <3>2
  <2> DEFINE e == End(k)
             c == answers[k].calls
  <2> HIDE DEF End
  <2>3. PICK said \in {0, 1} :
          /\ e = p[k] + said + Len(c)
          /\ \A j \in 1..Len(c) : m[p[k] + said + j] = [role |-> "tool", call |-> c[j].id]
          /\ said = 1 => m[p[k] + 1].role = "user"
    BY <2>2 DEF Behind
  <2>4. p[k] \in Nat /\ c \in Seq(AnswerCall)
    BY <1>2, <2>1
  <2> HIDE DEF c, e, m
  <2>5. ResultsPlaced(m, ToolPlaces(m, p[k], e), c)
    BY <2>3, <2>4, PlacedBehind
  <2>8. ResultsPlaced(m, ToolPlaces(m, p[k], End(k)), answers[k].calls)
    BY <2>5, Zenon DEF e, c
  <2> USE DEF m
  <2>9. m[p[k]].text = answers[k].text /\ m[p[k]].calls = CallsBack(answers[k].calls)
    <3>1. m[p[k]] = [role |-> "assistant", text |-> answers[k].text,
                     calls |-> CallsBack(answers[k].calls)]
      BY <1>4
    <3>2. QED
      BY <3>1
  <2>10. m[p[k]].calls = [i \in DOMAIN answers[k].calls |->
                                         [id |-> answers[k].calls[i].id,
                                          args |-> IF answers[k].calls[i].args \in {"none", "{json}"}
                                                     THEN "{json}" ELSE "quoted"]]
    BY <1>10, <2>9, Zenon
  <2>11. QED
    BY <2>3, <2>8, <2>9, <2>10, Zenon
<1> DEFINE Good(O) ==
             /\ Chat!Cardinality(own) = n
             /\ \A k \in DOMAIN answers :
                  /\ m[O[k]].text = answers[k].text
                  /\ m[O[k]].calls
                       = [i \in DOMAIN answers[k].calls |->
                            [id |-> answers[k].calls[i].id,
                             args |-> IF answers[k].calls[i].args \in {"none", "{json}"}
                                        THEN "{json}" ELSE "quoted"]]
                  /\ ResultsPlaced(m, ToolPlaces(m, O[k], IF k < n THEN O[k + 1] - 1 ELSE Len(m)),
                            answers[k].calls)
<1>12. Good(p)
  <2>1. DOMAIN answers = 1..n /\ Chat!Cardinality(own) = n
    BY <1>1, <1>8
  <2> HIDE DEF own, m, n, Own
  <2>2. ASSUME NEW k \in DOMAIN answers PROVE k \in 1..n
    BY <2>1
  <2>3. QED
    BY <1>9, <2>1, <2>2, Zenon
<1>13. Good(Own)
  <2>1. Own = p
    BY <1>11
  <2> HIDE DEF Own, Good
  <2>2. QED
    BY <1>12, <2>1, Zenon
<1>14. QED
  BY <1>13, Zenon DEF Chat!AnswersComeBack, Chat!Mapped, ResultsPlaced, ToolPlaces

Sending == Mapped(talk, Convert)

(* Of an Anthropic client: the answers it was given are among the messages *)
(* to the model, each in its place with its results; those of the last     *)
(* come with the client's next message.                                    *)
ComingBack ==
    client = "anthropic" =>
      /\ Chat!Asked => chatSent.messages = Sending
      /\ \E p : /\ ComesBack(Sending, p, answers)
                /\ IF Chat!Asked THEN AllBehind(Sending, p, answers) ELSE LastAhead(Sending, p, answers)

LEMMA NothingComesBack ==
    ASSUME Chat!Init
    PROVE  ComingBack
<1>1. talk = <<>> /\ answers = <<>>
  BY DEF Chat!Init
<1>2. Sending = <<>>
  BY <1>1, MappedEmpty DEF Sending
<1>3. Len(Sending) = 0 /\ Len(answers) = 0 /\ ~Chat!Asked
  BY <1>1, <1>2, EmptySeq DEF Chat!Asked
<1> DEFINE p == [k \in {} |-> 0]
<1>4. p \in [1..0 -> 1..0]
  OBVIOUS
<1>5. ComesBack(Sending, p, answers) /\ LastAhead(Sending, p, answers)
  BY <1>3, <1>4 DEF ComesBack, LastAhead
<1> HIDE DEF p
<1>6. QED
  BY <1>3, <1>5 DEF ComingBack

LEMMA AskComesBack ==
    ASSUME Conversing, ComingBack, NEW speaks \in BOOLEAN, Chat!Ask(speaks)
    PROVE  ComingBack'
<1>1. client' = client /\ answers' = answers /\ ~Chat!Asked
  BY DEF Chat!Ask
<1>2. SUFFICES ASSUME client = "anthropic" PROVE ComingBack'
  BY <1>1 DEF ComingBack
<1> DEFINE ids == Chat!Pending
           t == IF speaks THEN <<[role |-> "user", text |-> <<Chat!Turn>>]>> ELSE <<>>
           u == Cat(t, ResultMessages(ids))
<1>3. PICK x \in BlockMessage : talk' = Append(talk, x) /\ Converted(x) = u
  BY <1>2, BlocksAskedConvert
<1>4. ids \in Seq(Ids) /\ Chat!Turn \in Nat
  BY PendingType
<1>5. t \in Seq(Spoken) /\ Len(t) \in {0, 1} /\ \A i \in DOMAIN t : t[i].role = "user"
  <2> DEFINE y == [role |-> "user", text |-> <<Chat!Turn>>]
  <2>1. y \in Spoken /\ y.role = "user"
    BY <1>4 DEF Spoken
  <2>2. CASE speaks
    <3> HIDE DEF y
    <3>1. <<y>> \in Seq(Spoken) /\ Len(<<y>>) = 1 /\ \A i \in DOMAIN <<y>> : <<y>>[i].role = "user"
      BY <2>1
    <3>2. t = <<y>>
      BY <2>2 DEF y
    <3>3. QED
      BY <3>1, <3>2
  <2>3. CASE ~speaks
    BY <2>3, EmptySeq
  <2>4. QED
    BY <2>2, <2>3
<1>6. IF answers = <<>> THEN ids = <<>> ELSE IdsOf(ids, answers[Len(answers)])
  <2>1. CASE answers = <<>>
    BY <2>1 DEF Chat!Pending
  <2>2. CASE answers # <<>>
    <3> DEFINE c == answers[Len(answers)].calls
    <3>1. Len(answers) \in 1..Len(answers)
      <4>1. Len(answers) \in Nat /\ Len(answers) # 0
        BY <2>2, LenProperties, EmptySeq DEF Conversing
      <4>2. QED
        BY <4>1
    <3>2. c \in Seq(AnswerCall)
      BY <3>1, AnswersType DEF Conversing
    <3>3. ids = [i \in DOMAIN c |-> c[i].id]
      BY <2>2 DEF Chat!Pending, Chat!Mapped
    <3> HIDE DEF ids, c
    <3>4. DOMAIN ids = DOMAIN c /\ \A i \in DOMAIN c : ids[i] = c[i].id
      BY <3>3
    <3>5. DOMAIN c = 1..Len(c) /\ DOMAIN ids = 1..Len(ids) /\ Len(c) \in Nat /\ Len(ids) \in Nat
      BY <1>4, <3>2, LenProperties
    <3>6. Len(ids) = Len(c)
      BY <3>4, <3>5
    <3>7. QED
      BY <2>2, <3>4, <3>5, <3>6 DEF IdsOf, c
  <2>3. QED
    BY <2>1, <2>2
<1> HIDE DEF t, ids
<1>7. ResultMessages(ids) \in Seq(Result)
  BY <1>4, ResultsType
<1>8. u \in Seq(Result \cup Spoken) /\ \A i \in DOMAIN u : u[i].role # "assistant"
  <2> DEFINE r == ResultMessages(ids)
  <2>1. t \in Seq(Result \cup Spoken) /\ r \in Seq(Result \cup Spoken)
    BY <1>5, <1>7, SeqMonotonic
  <2>2. \A j \in DOMAIN r : r[j].role # "assistant"
    <3>1. \A j \in DOMAIN r : r[j] \in Result
      BY <1>7, ElementOfSeq, LenProperties
    <3>2. QED
      BY <3>1 DEF Result
  <2>3. \A j \in DOMAIN t : t[j].role # "assistant"
    BY <1>5
  <2> HIDE DEF r
  <2>4. u = t \o r
    BY DEF r, Cat
  <2> HIDE DEF u
  <2>5. /\ t \o r \in Seq(Result \cup Spoken)
        /\ \A k \in DOMAIN (t \o r) : \/ k \in DOMAIN t /\ (t \o r)[k] = t[k]
                                      \/ \E j \in DOMAIN r : (t \o r)[k] = r[j]
    BY <2>1, Concatenated
  <2>6. QED
    BY <2>2, <2>3, <2>4, <2>5
<1>9. talk \in Seq(BlockMessage) /\ talk' \in Seq(BlockMessage) /\ talk' # <<>> /\ Chat!Asked'
  <2>1. talk \in Seq(BlockMessage)
    BY <1>2 DEF Conversing
  <2>2. PICK y \in BlockMessage : y.role = "user" /\ talk' = Append(talk, y)
    BY <1>2, BlocksAsked
  <2>3. talk' \in Seq(BlockMessage) /\ talk' # <<>> /\ talk'[Len(talk')] = y /\ Len(talk') > 0
    BY <2>1, <2>2, LastAppended
  <2>4. QED
    BY <2>1, <2>2, <2>3 DEF Chat!Asked
<1>10. Sending \in Seq(PlainMessage) /\ Sending' = Cat(Sending, u)
  <2>1. Convert \in [BlockMessage -> Seq(PlainMessage)] /\ Convert[x] = u
    BY <1>3, ConvertMapped DEF Convert
  <2> HIDE DEF u
  <2>2. Mapped(Append(talk, x), Convert) = Cat(Mapped(talk, Convert), Convert[x])
    BY <1>9, <2>1, MappedCatOne
  <2>3. QED
    BY <1>3, <1>9, <2>1, <2>2, ConvertMapped DEF Sending
<1>11. chatSent'.messages = Sending'
  <2>1. chatSent' = Chat!AnthropicToOpenAIRequest(talk')
    BY <1>2 DEF Chat!Ask
  <2>2. QED
    BY <1>9, <2>1, ConvertMapped DEF Sending
<1>12. PICK p : ComesBack(Sending, p, answers) /\ LastAhead(Sending, p, answers)
  BY <1>1, <1>2 DEF ComingBack
<1>13. answers \in Seq(AnswerGiven)
  BY DEF Conversing
<1>14. ComesBack(Cat(Sending, u), p, answers)
  <2> HIDE DEF u
  <2>1. QED
    BY <1>8, <1>10, <1>12, <1>13, MessagesBehind
<1>15. AllBehind(Cat(Sending, u), p, answers)
  <2>1. CASE answers = <<>>
    BY <2>1, EmptySeq DEF AllBehind
  <2>2. CASE answers # <<>>
    <3>1. Len(answers) > 0 /\ IdsOf(ids, answers[Len(answers)])
      <4>1. Len(answers) \in Nat /\ Len(answers) # 0
        BY <1>13, <2>2, LenProperties, EmptySeq
      <4>2. QED
        BY <1>6, <2>2, <4>1
    <3>2. QED
      BY <1>4, <1>5, <1>10, <1>12, <1>13, <3>1, ResultsClose
  <2>3. QED
    BY <2>1, <2>2
<1> HIDE DEF u
<1>16. QED
  BY <1>1, <1>9, <1>10, <1>11, <1>14, <1>15 DEF ComingBack

LEMMA AnswerComesBack ==
    ASSUME Conversing, ComingBack, NEW says \in BOOLEAN, NEW n \in Nat,
           NEW args \in [1..n -> Chat!Args \cup Chat!Inputs], NEW reason \in Chat!Reasons(args),
           Chat!Answer(says, args, reason)
    PROVE  ComingBack'
<1>1. client' = client /\ Chat!Asked
  BY DEF Chat!Answer
<1>2. SUFFICES ASSUME client = "anthropic" PROVE ComingBack'
  BY <1>1 DEF ComingBack
<1>3. PICK a \in AnswerGiven :
        /\ answers' = Append(answers, a)
        /\ talk' = Append(talk, Chat!OpenAIToAnthropicResponse(a))
  BY <1>2, AnswerGot
<1> DEFINE m == Chat!OpenAIToAnthropicResponse(a)
           x == [role |-> "assistant", text |-> a.text, calls |-> CallsBack(a.calls)]
<1>4. /\ m \in BlockMessage /\ m.role = "assistant"
      /\ Chat!TextsOf(m.blocks) = a.text /\ Chat!CallsIn(m.blocks) = CallsBack(a.calls)
  BY AnswerTaken
<1>5. talk' = Append(talk, m)
  BY <1>3
<1> HIDE DEF m
<1>6. Converted(m) = <<x>> /\ <<x>> \in Seq(PlainMessage)
  BY <1>4, AssistantConverted
<1>7. x \in PlainMessage
  <2> HIDE DEF x
  <2>1. <<x>> \in Seq(PlainMessage) /\ Len(<<x>>) = 1 /\ <<x>>[1] = x
    BY <1>6
  <2>2. QED
    BY <2>1, ElementOfSeq
<1>8. talk \in Seq(BlockMessage) /\ talk' # <<>> /\ talk'[Len(talk')] = m
  <2>1. talk \in Seq(BlockMessage)
    BY <1>2 DEF Conversing
  <2>2. QED
    BY <1>4, <1>5, <2>1, LastAppended
<1>9. ~Chat!Asked'
  BY <1>4, <1>8 DEF Chat!Asked
<1> HIDE DEF x
<1>10. Sending \in Seq(PlainMessage) /\ Sending' = Append(Sending, x)
  <2>1. Convert \in [BlockMessage -> Seq(PlainMessage)] /\ Convert[m] = <<x>>
    BY <1>4, <1>6, ConvertMapped DEF Convert
  <2>2. Mapped(Append(talk, m), Convert) = Mapped(talk, Convert) \o Convert[m]
    BY ZenonT(30), <1>4, <1>8, <2>1, MappedAppended
  <2>3. Sending \in Seq(PlainMessage)
    BY <1>8, ConvertMapped DEF Sending
  <2>4. Sending \o <<x>> = Append(Sending, x)
    BY <1>7, <2>3, AppendIsConcat
  <2>5. QED
    BY <1>5, <2>1, <2>2, <2>3, <2>4 DEF Sending
<1>11. PICK p : ComesBack(Sending, p, answers) /\ AllBehind(Sending, p, answers)
  BY <1>1, <1>2 DEF ComingBack
<1>12. x = [role |-> "assistant", text |-> a.text, calls |-> CallsBack(a.calls)]
  BY DEF x
<1>13. answers \in Seq(AnswerGiven)
  BY DEF Conversing
<1>14. \E q : /\ ComesBack(Append(Sending, x), q, Append(answers, a))
              /\ LastAhead(Append(Sending, x), q, Append(answers, a))
  BY <1>7, <1>10, <1>11, <1>12, <1>13, AnswerOpens
<1>15. QED
  BY <1>1, <1>3, <1>9, <1>10, <1>14 DEF ComingBack

(* The answers come back in whatever is sent next.                         *)
LEMMA BackInPlace ==
    ASSUME Conversing, ComingBack
    PROVE  Chat!AnswersComeBack
<1>1. CASE ~(Chat!Asked /\ client = "anthropic")
  BY <1>1 DEF Chat!AnswersComeBack
<1>2. CASE Chat!Asked /\ client = "anthropic"
  <2>1. chatSent.messages = Sending
    BY <1>2 DEF ComingBack
  <2>2. PICK p : ComesBack(Sending, p, answers) /\ AllBehind(Sending, p, answers)
    BY <1>2 DEF ComingBack
  <2>3. talk \in Seq(BlockMessage)
    BY <1>2 DEF Conversing
  <2>4. Sending \in Seq(PlainMessage)
    BY <2>3, ConvertMapped DEF Sending
  <2>5. QED
    BY <1>2, <2>1, <2>2, <2>4, BackComes
<1>3. QED
  BY <1>1, <1>2

(* What a request holds of every answer and every message so far.          *)
LEMMA ComingAlways == Spec => [](Conversing /\ TakingTurns /\ ComingBack)
<1> DEFINE Inv == Conversing /\ TakingTurns /\ ComingBack
<1>1. Chat!Init => Inv
  BY ConversationBegins, TurnsBegin, NothingComesBack
<1>2. Inv /\ [Chat!Next]_chatVars => Inv'
  <2> SUFFICES ASSUME Inv, [Chat!Next]_chatVars PROVE Inv'
    OBVIOUS
  <2>1. ASSUME NEW speaks \in BOOLEAN, Chat!Ask(speaks) PROVE Inv'
    BY <2>1, AskConverses, AskTakesTurns, AskComesBack
  <2>2. ASSUME NEW says \in BOOLEAN, NEW n \in 0..MaxCalls,
               NEW args \in [1..n -> IF client = "anthropic" THEN Chat!Args ELSE {"object"}],
               NEW reason \in Chat!Reasons(args), Chat!Answer(says, args, reason)
        PROVE  Inv'
    <3>1. n \in Nat
      BY RequestPathAssumption
    <3>2. args \in [1..n -> Chat!Args \cup Chat!Inputs]
      BY DEF Chat!Inputs
    <3>3. QED
      BY <2>2, <3>1, <3>2, AnswerConverses, AnswerTakesTurns, AnswerComesBack
  <2>3. CASE UNCHANGED chatVars
    <3>1. /\ client' = client /\ prompt' = prompt /\ talk' = talk /\ chatSent' = chatSent
          /\ stop' = stop /\ answers' = answers
      BY <2>3 DEF chatVars
    <3>2. Chat!Asked' = Chat!Asked /\ Conversing' = Conversing
      BY <3>1 DEF Chat!Asked, Conversing
    <3>3. Simplest' = Simplest /\ Sending' = Sending /\ NoCalls' = NoCalls
      BY <3>1 DEF Simplest, Sending, NoCalls
    <3>4. TakingTurns' = TakingTurns
      BY <3>1, <3>2, <3>3 DEF TakingTurns
    <3>5. ComingBack' = ComingBack
      BY <3>1, <3>2, <3>3 DEF ComingBack
    <3>6. QED
      BY <3>2, <3>4, <3>5
  <2>4. QED
    BY <2>1, <2>2, <2>3 DEF Chat!Next
<1>3. QED
  BY <1>1, <1>2, ChatRuns, PTL

(* Of an OpenAI client's conversation with an Anthropic model: every       *)
(* request ends with the user or with the answer whose results are left    *)
(* out, and as long as nothing was called user and assistant alternate,    *)
(* from the user's first message on.                                       *)
THEOREM TurnsAlwaysTaken == Spec => []TakeTurns
<1>1. Conversing /\ TakingTurns /\ ComingBack => TakeTurns
  BY TurnsTaken DEF TakeTurns
<1>2. QED
  BY <1>1, ComingAlways, PTL

(* Of an Anthropic client's conversation with an OpenAI model: every       *)
(* answer the client was given is among the messages of the next request,  *)
(* once and in its place, with its calls and, behind it, their results.    *)
THEOREM AnswersAlwaysComeBack == Spec => []AnswersComeBack
<1>1. Conversing /\ TakingTurns /\ ComingBack => AnswersComeBack
  BY BackInPlace DEF AnswersComeBack
<1>2. QED
  BY <1>1, ComingAlways, PTL

----------------------------------------------------------------------------
(* The types of a conversation.  Beyond those of the messages: in which    *)
(* turn and at which place an answer's calls were made, what a request's   *)
(* messages may be, and that the client keeps one message for every        *)
(* answer.                                                                 *)
CallMade == [id: (1..MaxTurns) \X (1..MaxCalls), args: Chat!Args \cup Chat!Inputs]
AssistantsIn(s) == {i \in DOMAIN s : s[i].role = "assistant"}

TypesHold ==
    /\ Conversing
    /\ prompt \in {"none", "string", "blocks"}
    /\ chatSent.system \in {<<>>, <<"prompt">>}
    /\ \A i \in DOMAIN chatSent.messages :
         chatSent.messages[i].role \in IF client = "anthropic" THEN {"user", "assistant", "tool"}
                                       ELSE {"user", "assistant"}
    /\ \A i \in DOMAIN answers :
         /\ answers[i].text \in {<<>>, <<i>>}
         /\ \A k \in DOMAIN answers[i].calls : answers[i].calls[k] \in CallMade
    /\ IsFiniteSet(AssistantsIn(talk)) /\ Cardinality(AssistantsIn(talk)) = Len(answers)

LEMMA SameAssistants ==
    ASSUME NEW S, NEW s \in Seq(S), NEW q \in Seq(S), \A i \in DOMAIN q : q[i].role # "assistant"
    PROVE  AssistantsIn(Cat(s, q)) = AssistantsIn(s)
<1> DEFINE t == Cat(s, q)
<1>1. /\ t \in Seq(S) /\ Len(t) = Len(s) + Len(q)
      /\ \A i \in 1 .. Len(s) + Len(q) : t[i] = IF i <= Len(s) THEN s[i] ELSE q[i - Len(s)]
  BY CatIs
<1> HIDE DEF t
<1>2. /\ Len(s) \in Nat /\ Len(q) \in Nat /\ DOMAIN s = 1..Len(s) /\ DOMAIN q = 1..Len(q)
      /\ DOMAIN t = 1 .. Len(s) + Len(q)
  BY <1>1, LenProperties
<1>3. ASSUME NEW i \in AssistantsIn(t) PROVE i \in AssistantsIn(s)
  <2>1. i \in 1 .. Len(s) + Len(q) /\ t[i].role = "assistant"
    BY <1>2 DEF AssistantsIn
  <2>2. i <= Len(s)
    <3>1. SUFFICES ASSUME ~(i <= Len(s)) PROVE FALSE
      OBVIOUS
    <3>2. i - Len(s) \in DOMAIN q /\ t[i] = q[i - Len(s)]
      BY <1>1, <1>2, <2>1, <3>1
    <3>3. QED
      BY <2>1, <3>2
  <2>3. QED
    BY <1>1, <1>2, <2>1, <2>2 DEF AssistantsIn
<1>4. ASSUME NEW i \in AssistantsIn(s) PROVE i \in AssistantsIn(t)
  <2>1. i \in 1..Len(s) /\ s[i].role = "assistant"
    BY <1>2 DEF AssistantsIn
  <2>2. i \in 1 .. Len(s) + Len(q) /\ i <= Len(s)
    BY <1>2, <2>1
  <2>3. QED
    BY <1>1, <1>2, <2>1, <2>2 DEF AssistantsIn
<1>5. QED
  BY <1>3, <1>4 DEF t

LEMMA OneMoreAssistant ==
    ASSUME NEW S, NEW s \in Seq(S), NEW m \in S, m.role = "assistant",
           IsFiniteSet(AssistantsIn(s))
    PROVE  /\ IsFiniteSet(AssistantsIn(Append(s, m)))
           /\ Cardinality(AssistantsIn(Append(s, m))) = Cardinality(AssistantsIn(s)) + 1
<1> DEFINE t == Append(s, m)
           n == Len(s) + 1
<1>1. /\ DOMAIN t = 1..n /\ DOMAIN s = 1..Len(s) /\ Len(s) \in Nat
      /\ \A i \in 1..Len(s) : t[i] = s[i]
      /\ t[n] = m
  BY Appended
<1> HIDE DEF t
<1>2. AssistantsIn(t) = AssistantsIn(s) \cup {n} /\ n \notin AssistantsIn(s)
  BY <1>1 DEF AssistantsIn
<1>3. QED
  BY <1>2, FS_AddElement DEF t

LEMMA TypesBegin == Chat!Init => TypesHold
<1>1. SUFFICES ASSUME Chat!Init PROVE TypesHold
  OBVIOUS
<1>2. AssistantsIn(talk) = {} /\ DOMAIN answers = {} /\ Len(answers) = 0 /\ DOMAIN chatSent.messages = {}
  BY <1>1, EmptySeq DEF Chat!Init, AssistantsIn
<1>3. IsFiniteSet({}) /\ Cardinality({}) = 0
  BY FS_EmptySet
<1>4. QED
  BY <1>1, <1>2, <1>3, ConversationBegins DEF Chat!Init, TypesHold

LEMMA AskKeepsTypes ==
    ASSUME TypesHold, NEW speaks \in BOOLEAN, Chat!Ask(speaks)
    PROVE  TypesHold'
<1>1. Conversing' /\ client' = client /\ prompt' = prompt /\ answers' = answers
  BY AskConverses DEF Chat!Ask, TypesHold
<1>2. CASE client = "anthropic"
  <2>1. PICK m \in BlockMessage : m.role = "user" /\ talk' = Append(talk, m)
    BY <1>2, BlocksAsked DEF TypesHold
  <2>2. talk \in Seq(BlockMessage) /\ <<m>> \in Seq(BlockMessage) /\ talk' = Cat(talk, <<m>>)
    BY <1>2, <2>1, AppendIsConcat DEF TypesHold, Conversing, Cat
  <2>3. AssistantsIn(talk') = AssistantsIn(talk)
    <3>1. \A i \in DOMAIN <<m>> : <<m>>[i].role # "assistant"
      BY <2>1
    <3>2. QED
      BY <2>2, <3>1, SameAssistants
  <2>4. chatSent' = Chat!AnthropicToOpenAIRequest(talk')
    BY <1>2 DEF Chat!Ask
  <2>5. chatSent'.system \in {<<>>, <<"prompt">>}
    BY <2>4 DEF Chat!AnthropicToOpenAIRequest
  <2>6. chatSent'.messages \in Seq(PlainMessage)
    BY <1>1, <1>2, <2>4, ConvertMapped DEF Conversing
  <2>7. \A i \in DOMAIN chatSent'.messages :
          chatSent'.messages[i].role \in {"user", "assistant", "tool"}
    <3>1. \A x \in PlainMessage : x.role \in {"user", "assistant", "tool"}
      BY DEF PlainMessage, Result, Spoken, Called
    <3>2. QED
      BY <2>6, <3>1, ElementOfSeq, LenProperties
  <2>8. QED
    BY <1>1, <1>2, <2>3, <2>5, <2>7 DEF TypesHold
<1>3. CASE client = "openai"
  <2> DEFINE p == Chat!Pending
             x == [role |-> "user", text |-> <<Chat!Turn>>]
             t == IF speaks THEN <<x>> ELSE <<>>
             q == Cat(ResultMessages(p), t)
             Questions == Result \cup [role: {"user"}, text: Seq(Nat)]
  <2>1. talk' = Cat(talk, q)
    BY <1>3, MessagesAsked DEF TypesHold
  <2>2. q \in Seq(Questions)
    <3>1. p \in Seq(Ids) /\ Chat!Turn \in Nat
      BY PendingType DEF TypesHold
    <3>2. ResultMessages(p) \in Seq(Result) /\ x \in Questions
      BY <3>1, ResultsType
    <3>3. ResultMessages(p) \in Seq(Questions)
      BY <3>2, SeqMonotonic
    <3>4. t \in Seq(Questions)
      <4> HIDE DEF Questions, x
      <4>1. <<x>> \in Seq(Questions) /\ <<>> \in Seq(Questions)
        BY <3>2, EmptySeq
      <4>2. QED
        BY <4>1
    <3> HIDE DEF Questions, t, p
    <3>5. QED
      BY <3>3, <3>4, ConcatProperties DEF Cat
  <2>3. \A i \in DOMAIN q : q[i].role # "assistant"
    <3>1. \A y \in Questions : y.role # "assistant"
      BY DEF Result
    <3> HIDE DEF q, Questions
    <3>2. QED
      BY <2>2, <3>1, ElementOfSeq, LenProperties
  <2>4. talk \in Seq(PlainMessage) /\ q \in Seq(PlainMessage)
    <3>1. Questions \subseteq PlainMessage
      BY DEF PlainMessage, Spoken
    <3> HIDE DEF q, Questions
    <3>2. QED
      BY <1>3, <2>2, <3>1, SeqMonotonic DEF TypesHold, Conversing
  <2> HIDE DEF q
  <2>5. AssistantsIn(talk') = AssistantsIn(talk)
    BY <2>1, <2>3, <2>4, SameAssistants
  <2>6. chatSent' = Chat!OpenAIToAnthropicRequest(talk')
    BY <1>3 DEF Chat!Ask
  <2>7. chatSent'.system \in {<<>>, <<"prompt">>}
    BY <2>6 DEF Chat!OpenAIToAnthropicRequest
  <2>8. chatSent'.messages \in Seq(Spoken)
    BY <1>1, <1>3, <2>6, SimpleMapped DEF Conversing
  <2>9. \A i \in DOMAIN chatSent'.messages : chatSent'.messages[i].role \in {"user", "assistant"}
    <3>1. \A y \in Spoken : y.role \in {"user", "assistant"}
      BY DEF Spoken
    <3>2. QED
      BY <2>8, <3>1, ElementOfSeq, LenProperties
  <2>10. QED
    BY <1>1, <1>3, <2>5, <2>7, <2>9 DEF TypesHold
<1>4. QED
  BY <1>2, <1>3 DEF TypesHold, Conversing

LEMMA AnswerKeepsTypes ==
    ASSUME TypesHold, NEW says \in BOOLEAN, NEW n \in 0..MaxCalls,
           NEW args \in [1..n -> Chat!Args \cup Chat!Inputs], NEW reason \in Chat!Reasons(args),
           Chat!Answer(says, args, reason)
    PROVE  TypesHold'
<1>0. n \in Nat /\ MaxCalls \in Nat /\ MaxTurns \in Nat
  BY RequestPathAssumption
<1>1. Conversing' /\ client' = client /\ prompt' = prompt /\ chatSent' = chatSent
  BY <1>0, AnswerConverses DEF Chat!Answer, TypesHold
<1>2. PICK a \in AnswerGiven :
        /\ answers' = Append(answers, a)
        /\ client = "anthropic" => talk' = Append(talk, Chat!OpenAIToAnthropicResponse(a))
        /\ client = "openai" => talk' = Append(talk, Chat!AnthropicToOpenAIResponse(a))
  BY <1>0, AnswerGot DEF TypesHold
<1>3. /\ answers \in Seq(AnswerGiven) /\ Len(answers) \in Nat
      /\ Len(answers') = Len(answers) + 1 /\ DOMAIN answers' = 1 .. Len(answers) + 1
      /\ \A i \in 1..Len(answers) : i \in DOMAIN answers /\ answers'[i] = answers[i]
      /\ answers'[Len(answers) + 1] = a
  BY <1>2, Appended DEF TypesHold, Conversing
<1>4. \A i \in DOMAIN answers' :
        /\ answers'[i].text \in {<<>>, <<i>>}
        /\ \A k \in DOMAIN answers'[i].calls : answers'[i].calls[k] \in CallMade
  <2> DEFINE here == Chat!Turn
             b == [text |-> IF says THEN <<here>> ELSE <<>>, calls |-> Chat!CallsOf(args),
                   reason |-> reason]
  <2>1. here = Len(answers) + 1 /\ here \in 1..MaxTurns /\ answers' = Append(answers, b)
    BY <1>0, <1>3 DEF Chat!Answer, Chat!Turn
  <2>2. answers'[here] = b
    BY <1>3, <2>1, AppendProperties
  <2>3. b.text \in {<<>>, <<here>>} /\ b.calls = Chat!CallsOf(args)
    OBVIOUS
  <2>4. \A k \in DOMAIN Chat!CallsOf(args) : Chat!CallsOf(args)[k] \in CallMade
    <3>1. DOMAIN Chat!CallsOf(args) = 1..n
      BY DEF Chat!CallsOf
    <3>2. ASSUME NEW k \in 1..n PROVE Chat!CallsOf(args)[k] \in CallMade
      <4>1. Chat!CallsOf(args)[k] = [id |-> <<here, k>>, args |-> args[k]]
        BY DEF Chat!CallsOf
      <4>2. k \in 1..MaxCalls /\ args[k] \in Chat!Args \cup Chat!Inputs
        BY <1>0
      <4> HIDE DEF here
      <4>3. QED
        BY <2>1, <4>1, <4>2 DEF CallMade
    <3>3. QED
      BY <3>1, <3>2
  <2> HIDE DEF here, b
  <2>5. ASSUME NEW i \in DOMAIN answers'
        PROVE  /\ answers'[i].text \in {<<>>, <<i>>}
               /\ \A k \in DOMAIN answers'[i].calls : answers'[i].calls[k] \in CallMade
    <3>1. CASE i = here
      BY <2>2, <2>3, <2>4, <3>1
    <3>2. CASE i # here
      <4>1. i \in 1..Len(answers)
        BY <1>3, <2>1, <3>2
      <4>2. QED
        BY <1>3, <4>1 DEF TypesHold
    <3>3. QED
      BY <3>1, <3>2
  <2>6. QED
    BY <2>5
<1>5. PICK S : \E m \in S : talk \in Seq(S) /\ m.role = "assistant" /\ talk' = Append(talk, m)
  <2>1. CASE client = "anthropic"
    BY <1>2, <2>1, AnswerTaken DEF TypesHold, Conversing
  <2>2. CASE client = "openai"
    <3>1. /\ Chat!AnthropicToOpenAIResponse(a) \in PlainMessage
          /\ Chat!AnthropicToOpenAIResponse(a).role = "assistant"
      BY AnswerHeard DEF Called, PlainMessage
    <3>2. QED
      BY <1>2, <2>2, <3>1 DEF TypesHold, Conversing
  <2>3. QED
    BY <2>1, <2>2 DEF TypesHold, Conversing
<1>6. IsFiniteSet(AssistantsIn(talk')) /\ Cardinality(AssistantsIn(talk')) = Len(answers')
  BY <1>3, <1>5, OneMoreAssistant DEF TypesHold
<1>7. QED
  BY <1>1, <1>4, <1>6 DEF TypesHold

(* ConvertedChat: every variable keeps its type; an answer's calls are     *)
(* numbered by turn and place, no role goes to an upstream that it does    *)
(* not know, and the client keeps one message for every answer.            *)
THEOREM ChatAlwaysTyped == Spec => []Chat!TypeOK
<1>1. Chat!Init => TypesHold
  BY TypesBegin
<1>2. TypesHold /\ [Chat!Next]_chatVars => TypesHold'
  <2> SUFFICES ASSUME TypesHold, [Chat!Next]_chatVars PROVE TypesHold'
    OBVIOUS
  <2>1. ASSUME NEW speaks \in BOOLEAN, Chat!Ask(speaks) PROVE TypesHold'
    BY <2>1, AskKeepsTypes
  <2>2. ASSUME NEW says \in BOOLEAN, NEW n \in 0..MaxCalls,
               NEW args \in [1..n -> IF client = "anthropic" THEN Chat!Args ELSE {"object"}],
               NEW reason \in Chat!Reasons(args), Chat!Answer(says, args, reason)
        PROVE  TypesHold'
    <3>1. args \in [1..n -> Chat!Args \cup Chat!Inputs]
      BY DEF Chat!Inputs
    <3>2. QED
      BY <2>2, <3>1, AnswerKeepsTypes
  <2>3. CASE UNCHANGED chatVars
    BY <2>3 DEF chatVars, TypesHold, Conversing
  <2>4. QED
    BY <2>1, <2>2, <2>3 DEF Chat!Next
<1>3. TypesHold => Chat!TypeOK
  <2>1. Chat!Cardinality(AssistantsIn(talk)) = Cardinality(AssistantsIn(talk))
    BY Zenon DEF Chat!Cardinality, Cardinality, Chat!IsFiniteSet, IsFiniteSet
  <2>2. CallMade = Chat!Call
    BY DEF CallMade, Chat!Call
  <2>3. QED
    BY <2>1, <2>2 DEF TypesHold, Conversing, Chat!TypeOK, AssistantsIn
<1>4. QED
  BY <1>1, <1>2, <1>3, ChatRuns, PTL

----------------------------------------------------------------------------
(* HistoryReplay: no call is left without an answer right behind it.       *)

(* A message of a chat: tool messages answer a call, only the assistant    *)
(* makes calls.                                                            *)
SpokenBy == {"system", "user", "developer", "assistant", "tool"}
SpokenTexts == {<<>>, <<"client">>, <<"model">>, <<"instructions">>}
Sendable == [role: SpokenBy, text: SpokenTexts, calls: Seq(CallIds), call: CallIds \cup {NoId}]
ChatMessage ==
    {m \in Sendable : /\ m.role = "tool" <=> m.call # NoId
                      /\ m.calls # <<>> => m.role = "assistant"}

(* From message i to message j, i excluded, there are answers only, and    *)
(* the last is one to call c.                                              *)
AnsweredBy(s, i, j, c) == s[j].call = c /\ \A x \in i + 1 .. j : s[x].call # NoId
AnsweredAtOnce(s) ==
    \A i \in DOMAIN s : \A k \in DOMAIN s[i].calls :
      \E j \in i + 1 .. Len(s) : AnsweredBy(s, i, j, s[i].calls[k])

(* What becomes of every message of a chat: it comes first, if it is kept, *)
(* with its calls, and answers follow; answers are kept.                   *)
Becomes(b, m) ==
    /\ Len(b) > 0 => b[1].calls = m.calls
    /\ m.call # NoId => Len(b) > 0 /\ b[1].call = m.call
    /\ \A q \in 1..Len(b) : q > 1 => b[q].call # NoId /\ b[q].calls = <<>>

LEMMA AnswersStay ==
    ASSUME NEW B \in Seq(Seq(Sendable)), NEW s \in Seq(ChatMessage), Len(B) = Len(s),
           \A i \in 1..Len(s) : Becomes(B[i], s[i]),
           \A i \in 1..Len(s) : \A k \in DOMAIN s[i].calls :
             \/ \E q \in 1..Len(B[i]) : q > 1 /\ B[i][q].call = s[i].calls[k]
             \/ \E j \in i + 1 .. Len(s) : AnsweredBy(s, i, j, s[i].calls[k])
    PROVE  AnsweredAtOnce(FlattenSeq(B))
<1> DEFINE F == FlattenSeq(B)
           n == Len(s)
<1>1. PICK off : InPlace(F, B, off)
  BY FlattenedInPlace
<1> DEFINE Spot(i, q) == Place(off, i, q)
<1>2. n \in Nat /\ DOMAIN F = 1..Len(F) /\ Len(F) \in Nat
  BY FlattenType, LenProperties
<1>3. ASSUME NEW i \in 1..n PROVE Len(B[i]) \in Nat
  BY ElementOfSeq, LenProperties
<1>4. /\ \A i \in 1..n : \A q \in 1..Len(B[i]) : Spot(i, q) \in 1..Len(F) /\ F[Spot(i, q)] = B[i][q]
      /\ \A y \in 1..Len(F) : \E z \in 1..n : \E k \in 1..Len(B[z]) : y = Spot(z, k)
      /\ \A i, j \in 1..n : \A k \in 1..Len(B[i]) : \A q \in 1..Len(B[j]) :
           i < j \/ (i = j /\ k < q) => Spot(i, k) < Spot(j, q)
  BY <1>1, <1>2 DEF InPlace
<1>5. /\ \A i \in 1..n : Becomes(B[i], s[i])
      /\ \A i \in 1..n : \A k \in DOMAIN s[i].calls :
             \/ \E q \in 1..Len(B[i]) : q > 1 /\ B[i][q].call = s[i].calls[k]
             \/ \E j \in i + 1 .. n : AnsweredBy(s, i, j, s[i].calls[k])
  OBVIOUS
<1> HIDE DEF F, n, Spot
(* The places from the first of block i on, up to one of block j.          *)
<1>6. ASSUME NEW i \in 1..n, NEW j \in 1..n, NEW q \in 1..Len(B[j]), 1 \in 1..Len(B[i]),
             NEW y \in Spot(i, 1) + 1 .. Spot(j, q),
             \A x \in i + 1 .. j : s[x].call # NoId
      PROVE  F[y].call # NoId
  <2>1. Spot(i, 1) \in 1..Len(F) /\ Spot(j, q) \in 1..Len(F)
    BY <1>4, <1>6
  <2>2. y \in 1..Len(F) /\ Spot(i, 1) < y /\ y <= Spot(j, q)
    BY <1>2, <2>1
  <2>3. PICK z \in 1..n : \E k \in 1..Len(B[z]) : y = Spot(z, k)
    BY <1>4, <2>2
  <2>4. PICK k \in 1..Len(B[z]) : y = Spot(z, k)
    BY <2>3
  <2>5. F[y] = B[z][k] /\ Len(B[z]) \in Nat /\ k \in Nat /\ k >= 1
    <3>1. \A x \in 1..n : \A l \in 1..Len(B[x]) : F[Spot(x, l)] = B[x][l]
      BY <1>4
    <3>2. F[Spot(z, k)] = B[z][k]
      BY <3>1
    <3>3. Len(B[z]) \in Nat
      BY <1>3
    <3>4. QED
      BY <2>4, <3>2, <3>3
  <2>6. ~(z < i) /\ ~(j < z)
    <3>1. ~(y < Spot(i, 1)) /\ ~(Spot(j, q) < y)
      BY <1>2, <2>1, <2>2
    <3>2. QED
      BY <1>4, <1>6, <2>4, <3>1
  <2>7. ~(z = i /\ k = 1)
    <3>1. ~(y = Spot(i, 1))
      BY <1>2, <2>1, <2>2
    <3>2. QED
      BY <2>4, <3>1
  <2>8. CASE k > 1
    BY <1>5, <2>4, <2>5, <2>8 DEF Becomes
  <2>9. CASE k = 1
    <3>1. z \in i + 1 .. j
      BY <1>2, <2>6, <2>7, <2>9
    <3>2. s[z].call # NoId
      BY <1>6, <3>1
    <3>3. QED
      BY <1>5, <2>4, <2>5, <2>9, <3>2 DEF Becomes
  <2>10. QED
    BY <2>5, <2>8, <2>9
<1>7. ASSUME NEW p \in 1..Len(F), NEW l \in DOMAIN F[p].calls
      PROVE  \E y \in p + 1 .. Len(F) : AnsweredBy(F, p, y, F[p].calls[l])
  <2>1. PICK i \in 1..n : \E k \in 1..Len(B[i]) : p = Spot(i, k)
    BY <1>4
  <2>2. PICK k \in 1..Len(B[i]) : p = Spot(i, k)
    BY <2>1
  <2>3. F[p] = B[i][k] /\ Len(B[i]) \in Nat /\ k \in Nat /\ k >= 1
    BY <1>3, <1>4, <2>2
  <2>4. k = 1
    <3>1. SUFFICES ASSUME k > 1 PROVE FALSE
      BY <2>3
    <3>2. F[p].calls = <<>>
      BY <1>5, <2>2, <2>3, <3>1 DEF Becomes
    <3>3. QED
      BY <3>2
  <2> DEFINE c == s[i].calls[l]
  <2>5. F[p].calls = s[i].calls /\ 1 \in 1..Len(B[i]) /\ p = Spot(i, 1)
    BY <1>5, <2>2, <2>3, <2>4 DEF Becomes
  <2>6. ASSUME NEW j \in 1..n, NEW q \in 1..Len(B[j]), i < j \/ (i = j /\ 1 < q), B[j][q].call = c,
               \A x \in i + 1 .. j : s[x].call # NoId
        PROVE  \E y \in p + 1 .. Len(F) : AnsweredBy(F, p, y, c)
    <3> DEFINE y == Spot(j, q)
    <3>1. p < y /\ y \in 1..Len(F) /\ F[y].call = c
      BY <1>4, <2>5, <2>6
    <3>2. \A x \in p + 1 .. y : F[x].call # NoId
      BY <1>6, <2>5, <2>6
    <3>3. y \in p + 1 .. Len(F)
      BY <1>2, <3>1
    <3>4. QED
      BY <3>1, <3>2, <3>3 DEF AnsweredBy
  <2>7. CASE \E q \in 1..Len(B[i]) : q > 1 /\ B[i][q].call = c
    <3>1. i + 1 .. i = {}
      BY <1>2
    <3>2. QED
      BY <2>5, <2>6, <2>7, <3>1
  <2>8. CASE \E j \in i + 1 .. n : AnsweredBy(s, i, j, c)
    <3>1. PICK j \in i + 1 .. n : AnsweredBy(s, i, j, c)
      BY <2>8
    <3>2. j \in 1..n /\ i < j /\ j \in i + 1 .. j
      BY <1>2, <3>1
    <3>3. s[j].call = c /\ \A x \in i + 1 .. j : s[x].call # NoId
      BY <3>1 DEF AnsweredBy
    <3>4. Len(B[j]) > 0 /\ B[j][1].call = c /\ Len(B[j]) \in Nat
      BY <1>3, <1>5, <3>2, <3>3 DEF Becomes
    <3>5. 1 \in 1..Len(B[j])
      BY <3>4
    <3>6. QED
      BY <2>5, <2>6, <3>2, <3>3, <3>4, <3>5
  <2>9. l \in DOMAIN s[i].calls
    BY <2>5
  <2>10. QED
    BY <1>5, <2>5, <2>7, <2>8, <2>9
<1>8. QED
  BY <1>2, <1>7 DEF AnsweredAtOnce, F

(* A message and what is put behind it.                                    *)
Then(m, P) == <<m>> \o P

LEMMA Headed ==
    ASSUME NEW S, NEW m \in S, NEW P \in Seq(S), NEW b, b = Then(m, P)
    PROVE  /\ b \in Seq(S) /\ Len(b) = Len(P) + 1 /\ b[1] = m
           /\ \A q \in DOMAIN P : q + 1 \in 1..Len(b) /\ q + 1 > 1 /\ b[q + 1] = P[q]
           /\ \A q \in 1..Len(b) : q > 1 => \E r \in DOMAIN P : b[q] = P[r]
<1> DEFINE h == <<m>>
<1>1. h \in Seq(S) /\ Len(h) = 1 /\ h[1] = m
  OBVIOUS
<1> HIDE DEF h
<1>2. /\ b \in Seq(S) /\ Len(b) = 1 + Len(P)
      /\ \A q \in 1 .. 1 + Len(P) : b[q] = IF q <= 1 THEN h[q] ELSE P[q - 1]
  BY <1>1, ConcatProperties DEF h, Then
<1>3. Len(P) \in Nat /\ DOMAIN P = 1..Len(P)
  BY LenProperties
<1>4. b[1] = m
  BY <1>1, <1>2, <1>3
<1>5. ASSUME NEW q \in DOMAIN P
      PROVE  q + 1 \in 1..Len(b) /\ q + 1 > 1 /\ b[q + 1] = P[q]
  <2>1. q + 1 \in 1 .. 1 + Len(P) /\ ~(q + 1 <= 1) /\ (q + 1) - 1 = q
    BY <1>3
  <2>2. QED
    BY <1>2, <1>3, <2>1
<1>6. ASSUME NEW q \in 1..Len(b), q > 1
      PROVE  \E r \in DOMAIN P : b[q] = P[r]
  <2>1. q - 1 \in DOMAIN P /\ q \in 1 .. 1 + Len(P) /\ ~(q <= 1)
    BY <1>2, <1>3, <1>6
  <2>2. QED
    BY <1>2, <2>1
<1>7. QED
  BY <1>2, <1>3, <1>4, <1>5, <1>6

(* What a placeholder is, and that there is one for every call left.       *)
Answers == {m \in ChatMessage : m.call # NoId /\ m.calls = <<>> /\ m.text = <<>>}

LEMMA PlaceholdersGiven ==
    ASSUME NEW calls \in Seq(CallIds), NEW answered, NEW P,
           P = History!Placeholders(calls, answered)
    PROVE  /\ P \in Seq(Answers)
           /\ \A k \in DOMAIN calls :
                calls[k] \notin answered => \E q \in DOMAIN P : P[q].call = calls[k]
<1> DEFINE B == [k \in DOMAIN calls |->
                   IF calls[k] \in answered THEN <<>> ELSE <<History!Placeholder(calls[k])>>]
<1>1. P = FlattenSeq(B)
  <2>1. P = History!FlattenSeq(B)
    BY DEF History!Placeholders, History!Mapped
  <2>2. History!FlattenSeq(B) = FlattenSeq(B)
    BY Zenon DEF History!FlattenSeq, FlattenSeq
  <2>3. QED
    BY <2>1, <2>2
<1>2. ASSUME NEW k \in DOMAIN calls
      PROVE  History!Placeholder(calls[k]) \in Answers /\ History!Placeholder(calls[k]).call = calls[k]
  <2>1. calls[k] \in CallIds /\ calls[k] # NoId
    BY ElementOfSeq, LenProperties, RequestPathAssumption
  <2>2. QED
    BY <2>1 DEF History!Placeholder, History!Message, Answers, ChatMessage, Sendable, SpokenBy, SpokenTexts
<1>3. B \in [DOMAIN calls -> Seq(Answers)]
  BY <1>2
<1>4. B \in Seq(Seq(Answers)) /\ DOMAIN B = DOMAIN calls /\ DOMAIN B = 1..Len(B)
  BY <1>3, SameLength, LenProperties
<1>5. P \in Seq(Answers)
  BY <1>1, <1>4, FlattenType
<1>6. ASSUME NEW k \in DOMAIN calls, calls[k] \notin answered
      PROVE  \E q \in DOMAIN P : P[q].call = calls[k]
  <2>1. PICK off : InPlace(P, B, off)
    BY <1>1, <1>4, FlattenedInPlace
  <2>2. B[k] = <<History!Placeholder(calls[k])>>
    BY <1>6
  <2>3. k \in 1..Len(B) /\ 1 \in 1..Len(B[k]) /\ B[k][1] = History!Placeholder(calls[k])
    BY <1>4, <2>2
  <2> HIDE DEF B
  <2>4. Place(off, k, 1) \in DOMAIN P /\ P[Place(off, k, 1)] = B[k][1]
    BY <2>1, <2>3 DEF InPlace
  <2>5. QED
    BY <1>2, <2>3, <2>4
<1>7. QED
  BY <1>5, <1>6

(* ensureToolCallsAnswered, for any messages.                              *)
LEMMA CallsGetAnswered ==
    ASSUME NEW s \in Seq(ChatMessage), NEW t, t = History!ensureToolCallsAnswered(s)
    PROVE  t \in Seq(ChatMessage) /\ AnsweredAtOnce(t)
<1> DEFINE P(i) == History!Placeholders(s[i].calls, History!AnsweredAfter(s, i))
           B == [i \in DOMAIN s |-> Then(s[i], P(i))]
<1>1. t = FlattenSeq(B)
  <2>1. t = History!FlattenSeq(B)
    BY DEF History!ensureToolCallsAnswered, History!Answering, Then
  <2>2. History!FlattenSeq(B) = FlattenSeq(B)
    BY Zenon DEF History!FlattenSeq, FlattenSeq
  <2>3. QED
    BY <2>1, <2>2
<1>2. Len(s) \in Nat /\ DOMAIN s = 1..Len(s)
  BY LenProperties
<1>3. ASSUME NEW i \in 1..Len(s)
      PROVE  /\ s[i] \in ChatMessage /\ s[i] \in Sendable /\ s[i].calls \in Seq(CallIds)
             /\ P(i) \in Seq(Answers) /\ P(i) \in Seq(ChatMessage) /\ P(i) \in Seq(Sendable)
             /\ B[i] = Then(s[i], P(i))
             /\ \A k \in DOMAIN s[i].calls :
                  s[i].calls[k] \notin History!AnsweredAfter(s, i) =>
                    \E q \in DOMAIN P(i) : P(i)[q].call = s[i].calls[k]
  <2>1. s[i] \in ChatMessage /\ s[i] \in Sendable /\ s[i].calls \in Seq(CallIds)
    BY ElementOfSeq DEF ChatMessage, Sendable
  <2>2. /\ P(i) \in Seq(Answers)
        /\ \A k \in DOMAIN s[i].calls :
             s[i].calls[k] \notin History!AnsweredAfter(s, i) =>
               \E q \in DOMAIN P(i) : P(i)[q].call = s[i].calls[k]
    <3> DEFINE calls == s[i].calls
               answered == History!AnsweredAfter(s, i)
               p == P(i)
    <3>1. calls \in Seq(CallIds) /\ p = History!Placeholders(calls, answered)
      BY <2>1
    <3> HIDE DEF calls, answered, p
    <3>2. /\ p \in Seq(Answers)
          /\ \A k \in DOMAIN calls :
               calls[k] \notin answered => \E q \in DOMAIN p : p[q].call = calls[k]
      BY <3>1, PlaceholdersGiven
    <3>3. QED
      BY <3>2 DEF calls, answered, p
  <2>3. Answers \subseteq ChatMessage /\ Answers \subseteq Sendable
    BY DEF Answers, ChatMessage
  <2>4. P(i) \in Seq(ChatMessage) /\ P(i) \in Seq(Sendable)
    <3> HIDE DEF P
    <3>1. QED
      BY <2>2, <2>3
  <2>5. QED
    BY <1>2, <2>1, <2>2, <2>4
<1> HIDE DEF P
<1>4. B \in [DOMAIN s -> Seq(ChatMessage)] /\ B \in [DOMAIN s -> Seq(Sendable)]
  <2>1. \A i \in 1..Len(s) : B[i] \in Seq(ChatMessage) /\ B[i] \in Seq(Sendable)
    BY <1>3, Headed
  <2>2. QED
    BY <1>2, <2>1
<1>5. B \in Seq(Seq(ChatMessage)) /\ B \in Seq(Seq(Sendable)) /\ Len(B) = Len(s)
  BY <1>4, SameLength
<1> HIDE DEF B
<1>6. ASSUME NEW i \in 1..Len(s)
      PROVE  /\ Becomes(B[i], s[i])
             /\ \A q \in DOMAIN P(i) :
                  q + 1 \in 1..Len(B[i]) /\ q + 1 > 1 /\ B[i][q + 1] = P(i)[q]
  <2>0. s[i] \in Sendable /\ P(i) \in Seq(Sendable) /\ B[i] = Then(s[i], P(i))
    BY <1>3
  <2>1. /\ Len(B[i]) = Len(P(i)) + 1 /\ B[i][1] = s[i]
        /\ \A q \in DOMAIN P(i) : q + 1 \in 1..Len(B[i]) /\ q + 1 > 1 /\ B[i][q + 1] = P(i)[q]
        /\ \A q \in 1..Len(B[i]) : q > 1 => \E r \in DOMAIN P(i) : B[i][q] = P(i)[r]
    <3> DEFINE m == s[i]
               p == P(i)
               b == B[i]
    <3> HIDE DEF m, p, b
    <3>1. m \in Sendable /\ p \in Seq(Sendable) /\ b = Then(m, p)
      BY <2>0 DEF m, p, b
    <3>2. /\ Len(b) = Len(p) + 1 /\ b[1] = m
          /\ \A q \in DOMAIN p : q + 1 \in 1..Len(b) /\ q + 1 > 1 /\ b[q + 1] = p[q]
          /\ \A q \in 1..Len(b) : q > 1 => \E r \in DOMAIN p : b[q] = p[r]
      BY <3>1, Headed, Z3
    <3>3. QED
      BY <3>2 DEF m, p, b
  <2>2. Len(P(i)) \in Nat /\ \A r \in DOMAIN P(i) : P(i)[r] \in Answers
    BY <1>3, LenProperties, ElementOfSeq
  <2>3. QED
    BY <2>1, <2>2 DEF Becomes, Answers
<1>7. ASSUME NEW i \in 1..Len(s), NEW k \in DOMAIN s[i].calls
      PROVE  \/ \E q \in 1..Len(B[i]) : q > 1 /\ B[i][q].call = s[i].calls[k]
             \/ \E j \in i + 1 .. Len(s) : AnsweredBy(s, i, j, s[i].calls[k])
  <2> DEFINE c == s[i].calls[k]
  <2>1. CASE c \in History!AnsweredAfter(s, i)
    <3>1. PICK j \in i + 1 .. Len(s) :
            c = s[j].call /\ \A x \in i + 1 .. j : s[x].role = "tool"
      BY <2>1 DEF History!AnsweredAfter
    <3>2. \A x \in i + 1 .. j : s[x] \in ChatMessage
      BY <1>2, <3>1, ElementOfSeq
    <3>3. \A x \in i + 1 .. j : s[x].call # NoId
      BY <3>1, <3>2 DEF ChatMessage
    <3>4. QED
      BY <3>1, <3>3 DEF AnsweredBy
  <2>2. CASE c \notin History!AnsweredAfter(s, i)
    <3>1. PICK q \in DOMAIN P(i) : P(i)[q].call = c
      BY <1>3, <2>2
    <3>2. q + 1 \in 1..Len(B[i]) /\ q + 1 > 1 /\ B[i][q + 1] = P(i)[q]
      BY <1>6
    <3>3. QED
      BY <3>1, <3>2
  <2>3. QED
    BY <2>1, <2>2
<1>8. QED
  BY <1>1, <1>5, <1>6, <1>7, FlattenType, AnswersStay

(* What the input says makes no calls, and is no placeholder; what an      *)
(* answer said answers none.                                               *)
Plain == {m \in ChatMessage : m.calls = <<>> /\ (m.call # NoId => m.text # <<>>)}
Replies == {m \in ChatMessage : m.role = "assistant" /\ m.call = NoId}

LEMMA FlattenMade ==
    ASSUME NEW S, NEW s, NEW n \in Nat, DOMAIN s = 1..n, NEW B \in [1..n -> Seq(S)]
    PROVE  History!FlattenSeq(B) \in Seq(S) /\ B \in Seq(Seq(S)) /\ Len(B) = n
<1>1. B \in Seq(Seq(S)) /\ Len(B) = n
  OBVIOUS
<1>2. History!FlattenSeq(B) = FlattenSeq(B)
  BY Zenon DEF History!FlattenSeq, FlattenSeq
<1>3. QED
  BY <1>1, <1>2, FlattenType

LEMMA HistoryFlattened == \A s : History!FlattenSeq(s) = FlattenSeq(s)
BY Zenon DEF History!FlattenSeq, FlattenSeq

(* The first messages of the system, and no more of them right behind.     *)
LEMMA SystemLenIs ==
    ASSUME NEW S, NEW msgs \in Seq(S), NEW n, n = History!SystemLen(msgs)
    PROVE  /\ n \in 0..Len(msgs)
           /\ \A i \in 1..n : msgs[i].role = "system"
           /\ \A k \in 0..Len(msgs) : (\A i \in 1..k : msgs[i].role = "system") => k <= n
<1> DEFINE T == {k \in 0..Len(msgs) : \A i \in 1..k : msgs[i].role = "system"}
           Rest == {k \in Nat : \E l \in T : k = Len(msgs) - l}
<1>0. Len(msgs) \in Nat
  BY LenProperties
<1>1. n = History!Max(T)
  BY DEF History!SystemLen
<1>2. 0 \in T
  BY <1>0
<1>3. Rest \subseteq Nat /\ Rest # {}
  BY <1>0, <1>2
<1>4. PICK k \in Rest : \A l \in Rest : k <= l
  BY <1>3, Least
<1>5. PICK m \in T : k = Len(msgs) - m
  BY <1>4
<1>6. ASSUME NEW l \in T PROVE m >= l
  <2>1. l \in 0..Len(msgs) /\ m \in 0..Len(msgs)
    OBVIOUS
  <2>2. Len(msgs) - l \in Rest
    BY <1>0, <2>1
  <2>3. Len(msgs) - m <= Len(msgs) - l
    BY <1>4, <1>5, <2>2
  <2>4. QED
    BY <1>0, <2>1, <2>3
<1>7. n \in T /\ \A l \in T : n >= l
  <2> HIDE DEF T
  <2>1. QED
    BY <1>1, <1>5, <1>6 DEF History!Max
<1>8. QED
  BY <1>7

(* MergeHistory leaves no call unanswered: without a history there is none.*)
LEMMA MergedIsAnswered ==
    ASSUME NEW msgs \in Seq(Plain), NEW history \in Seq(ChatMessage), NEW t,
           t = History!MergeHistory(msgs, history)
    PROVE  t \in Seq(ChatMessage) /\ AnsweredAtOnce(t)
<1>0. msgs \in Seq(ChatMessage)
  BY DEF Plain
<1>1. CASE history = <<>>
  <2>1. t = msgs
    BY <1>1 DEF History!MergeHistory
  <2>2. \A i \in DOMAIN msgs : msgs[i].calls = <<>>
    BY ElementOfSeq, LenProperties DEF Plain
  <2>3. AnsweredAtOnce(msgs)
    BY <2>2 DEF AnsweredAtOnce
  <2>4. QED
    BY <1>0, <2>1, <2>3
<1>2. CASE history # <<>>
  <2> DEFINE n == History!SystemLen(msgs)
             front == SubSeq(msgs, 1, n)
             back == SubSeq(msgs, n + 1, Len(msgs))
             all == front \o history \o back
  <2>1. t = History!ensureToolCallsAnswered(all)
    BY <1>2 DEF History!MergeHistory
  <2>2. Len(msgs) \in Nat /\ \A i \in 1..Len(msgs) : msgs[i] \in ChatMessage
    BY <1>0, LenProperties, ElementOfSeq
  <2>3. n \in 0..Len(msgs)
    BY SystemLenIs
  <2> HIDE DEF n
  <2>4. front \in Seq(ChatMessage) /\ back \in Seq(ChatMessage)
    <3>1. \A i \in 1..n : msgs[i] \in ChatMessage
      BY <2>2, <2>3
    <3>2. \A i \in n + 1 .. Len(msgs) : msgs[i] \in ChatMessage
      BY <2>2, <2>3
    <3>3. n \in Int /\ n + 1 \in Int /\ Len(msgs) \in Int /\ 1 \in Int
      BY <2>2, <2>3
    <3>4. QED
      BY <3>1, <3>2, <3>3, SubSeqProperties
  <2> HIDE DEF front, back
  <2>5. all \in Seq(ChatMessage)
    BY <2>4, ConcatProperties
  <2>6. QED
    BY <2>1, <2>5, CallsGetAnswered
<1>3. QED
  BY <1>1, <1>2

(* An Anthropic model's request keeps calls and answers together.          *)
LEMMA AnthropicIsAnswered ==
    ASSUME NEW s \in Seq(ChatMessage), AnsweredAtOnce(s), NEW instructions,
           NEW r, r = History!ToAnthropicRequest(s, instructions), r.status = "sent"
    PROVE  AnsweredAtOnce(r.messages)
<1> DEFINE MadeOf(m) == IF m.role = "system" THEN <<>> ELSE History!convertMessageToAnthropic(m)
           B == [i \in DOMAIN s |-> MadeOf(s[i])]
<1>1. r.messages = FlattenSeq(B)
  <2>1. History!FlattenSeq(B) = FlattenSeq(B)
    BY Zenon DEF History!FlattenSeq, FlattenSeq
  <2>2. r = IF History!FlattenSeq(B) = <<>> THEN [History!Unsent EXCEPT !.status = "refused"]
            ELSE [status |-> "sent", system |-> instructions, messages |-> History!FlattenSeq(B)]
    BY DEF History!ToAnthropicRequest, History!Mapped
  <2> HIDE DEF B
  <2>3. History!FlattenSeq(B) # <<>>
    BY <2>2 DEF History!Unsent
  <2>4. QED
    BY <2>1, <2>2, <2>3
<1>2. Len(s) \in Nat /\ DOMAIN s = 1..Len(s) /\ \A i \in 1..Len(s) : s[i] \in ChatMessage
  BY LenProperties, ElementOfSeq
<1>3. ASSUME NEW m \in ChatMessage
      PROVE  MadeOf(m) \in Seq(Sendable) /\ Becomes(MadeOf(m), m)
  <2>1. m \in Sendable /\ (m.role = "tool" <=> m.call # NoId) /\ (m.calls # <<>> => m.role = "assistant")
    BY DEF ChatMessage
  <2> DEFINE tool == History!Message("user", m.text, <<>>, m.call)
             other == History!Message(m.role, m.text, m.calls, NoId)
  <2>2. tool \in Sendable /\ other \in Sendable
    BY <2>1 DEF Sendable, History!Message, SpokenBy
  <2>3. /\ tool.calls = <<>> /\ tool.call = m.call
        /\ other.calls = m.calls
    BY DEF History!Message
  <2>4. MadeOf(m) = IF m.role = "system" THEN <<>>
                     ELSE IF m.role = "tool" THEN <<tool>>
                     ELSE IF m.text = <<>> /\ m.calls = <<>> THEN <<>> ELSE <<other>>
    BY DEF History!convertMessageToAnthropic
  <2> HIDE DEF tool, other, MadeOf
  <2>5. CASE MadeOf(m) = <<>> /\ m.role # "tool"
    BY <2>1, <2>5 DEF Becomes
  <2>6. CASE MadeOf(m) = <<tool>> /\ m.role = "tool"
    BY <2>1, <2>2, <2>3, <2>6 DEF Becomes
  <2>7. CASE MadeOf(m) = <<other>> /\ m.role # "tool"
    BY <2>1, <2>2, <2>3, <2>7 DEF Becomes
  <2>8. QED
    BY <2>4, <2>5, <2>6, <2>7
<1> HIDE DEF MadeOf
<1>4. B \in [1..Len(s) -> Seq(Sendable)] /\ \A i \in 1..Len(s) : Becomes(B[i], s[i])
  BY <1>2, <1>3
<1> HIDE DEF B
<1>5. B \in Seq(Seq(Sendable)) /\ Len(B) = Len(s)
  BY <1>2, <1>4, FlattenMade
<1>6. \A i \in 1..Len(s) : \A k \in DOMAIN s[i].calls :
        \E j \in i + 1 .. Len(s) : AnsweredBy(s, i, j, s[i].calls[k])
  BY <1>2 DEF AnsweredAtOnce
<1>7. QED
  BY <1>1, <1>4, <1>5, <1>6, AnswersStay

----------------------------------------------------------------------------
(* HistoryReplay: the history and the whole input reach the upstream.      *)

(* Where nothing is made of placeholders, the answering goes unnoticed.    *)
LEMMA PlaceholdersPass ==
    ASSUME NEW s \in Seq(ChatMessage), NEW T, NEW g \in [ChatMessage -> Seq(T)],
           \A m \in Answers : g[m] = <<>>, NEW t, t = History!ensureToolCallsAnswered(s)
    PROVE  Mapped(t, g) = Mapped(s, g)
<1> DEFINE P(i) == History!Placeholders(s[i].calls, History!AnsweredAfter(s, i))
           B == [i \in DOMAIN s |-> Then(s[i], P(i))]
           n == Len(s)
<1>1. t = FlattenSeq(B)
  <2>1. t = History!FlattenSeq(B)
    BY DEF History!ensureToolCallsAnswered, History!Answering, Then
  <2>2. History!FlattenSeq(B) = FlattenSeq(B)
    BY Zenon DEF History!FlattenSeq, FlattenSeq
  <2>3. QED
    BY <2>1, <2>2
<1>2. n \in Nat /\ DOMAIN s = 1..n /\ \A i \in 1..n : s[i] \in ChatMessage
  BY LenProperties, ElementOfSeq
<1>3. ASSUME NEW i \in 1..n
      PROVE  Then(s[i], P(i)) \in Seq(ChatMessage) /\ Mapped(Then(s[i], P(i)), g) = g[s[i]]
  <2> DEFINE m == s[i]
             h == <<m>>
             p == P(i)
  <2>1. m \in ChatMessage /\ m.calls \in Seq(CallIds)
    BY <1>2 DEF ChatMessage, Sendable
  <2>2. p \in Seq(Answers)
    <3> DEFINE calls == m.calls
               answered == History!AnsweredAfter(s, i)
    <3>1. calls \in Seq(CallIds) /\ p = History!Placeholders(calls, answered)
      BY <2>1
    <3> HIDE DEF calls, answered, p
    <3>2. QED
      BY <3>1, PlaceholdersGiven
  <2>3. h \in Seq(ChatMessage)
    BY <2>1
  <2>4. Mapped(h, g) = g[m]
    BY <2>1, MappedOne
  <2>5. Then(s[i], P(i)) = Cat(h, p)
    BY DEF Then, Cat
  <2> HIDE DEF m, h, p, P
  <2>6. p \in Seq(ChatMessage)
    BY <2>2 DEF Answers
  <2>7. Mapped(p, g) = <<>>
    BY <2>2, MappedToNothing
  <2>8. Mapped(Cat(h, p), g) = Cat(Mapped(h, g), Mapped(p, g))
    BY <2>3, <2>6, MappedCat
  <2>9. g[m] \in Seq(T)
    BY <2>1
  <2>10. Cat(g[m], <<>>) = g[m]
    BY <2>9, CatEmpty
  <2>11. Cat(h, p) \in Seq(ChatMessage)
    BY <2>3, <2>6, CatAssociative
  <2>12. m = s[i]
    BY DEF m
  <2>13. QED
    BY <2>4, <2>5, <2>7, <2>8, <2>10, <2>11, <2>12
<1> HIDE DEF P
<1>4. B \in [DOMAIN s -> Seq(ChatMessage)]
  BY <1>2, <1>3
<1>5. \A i \in 1..n : B[i] = Then(s[i], P(i))
  BY <1>2
<1> HIDE DEF B
<1>6. B \in Seq(Seq(ChatMessage)) /\ Len(B) = n
  BY <1>4, SameLength
<1>7. Mapped(FlattenSeq(B), g) = FlattenSeq([i \in 1..n |-> Mapped(B[i], g)])
  <2> HIDE DEF n
  <2>1. QED
    BY <1>6, MappedFlattened
<1>8. [i \in 1..n |-> Mapped(B[i], g)] = [i \in DOMAIN s |-> g[s[i]]]
  BY <1>2, <1>3, <1>5
<1>9. QED
  BY <1>1, <1>7, <1>8 DEF Mapped

Genuine == {m \in ChatMessage : ~History!IsPlaceholder(m)}

(* What a message adds to the talk.                                        *)
Tell == [m \in Sendable |->
           IF m.role # "system" /\ (m.text # <<>> \/ m.calls # <<>>) THEN <<m>> ELSE <<>>]
Tag == [m \in Sendable |-> <<IF m.call = NoId THEN m.role ELSE "result", m.text, m.calls, m.call>>]
Tags == (SpokenBy \cup {"result"}) \X SpokenTexts \X Seq(CallIds) \X (CallIds \cup {NoId})
TellAs == EachTwice(Sendable, Tell, Tag)
TellChat == [m \in ChatMessage |-> TellAs[m]]
Anthropic == [m \in ChatMessage |->
                IF m.role = "system" THEN <<>> ELSE History!convertMessageToAnthropic(m)]

LEMMA AnthropicTypes == Anthropic \in Makes(ChatMessage, Sendable)
<1>1. ASSUME NEW m \in ChatMessage PROVE Anthropic[m] \in Seq(Sendable)
  <2> DEFINE tool == History!Message("user", m.text, <<>>, m.call)
             other == History!Message(m.role, m.text, m.calls, NoId)
  <2>1. tool \in Sendable /\ other \in Sendable
    BY DEF ChatMessage, Sendable, History!Message, SpokenBy
  <2>2. Anthropic[m] = IF m.role = "system" THEN <<>>
                       ELSE IF m.role = "tool" THEN <<tool>>
                       ELSE IF m.text = <<>> /\ m.calls = <<>> THEN <<>> ELSE <<other>>
    BY DEF Anthropic, History!convertMessageToAnthropic
  <2> HIDE DEF tool, other
  <2>3. QED
    BY <2>1, <2>2
<1>2. QED
  BY <1>1 DEF Anthropic, Makes

LEMMA TellTypes ==
    /\ Tell \in Makes(Sendable, Sendable) /\ Tag \in Gives(Sendable, Tags)
    /\ TellAs \in Makes(Sendable, Tags) /\ TellChat \in Makes(ChatMessage, Tags)
    /\ \A m \in Sendable :
         TellAs[m] = IF m.role # "system" /\ (m.text # <<>> \/ m.calls # <<>>) THEN <<Tag[m]>> ELSE <<>>
<1>1. Tell \in Makes(Sendable, Sendable) /\ Tag \in Gives(Sendable, Tags)
  <2>1. Tell \in Makes(Sendable, Sendable)
    BY DEF Tell, Makes
  <2>2. ASSUME NEW m \in Sendable
        PROVE  <<IF m.call = NoId THEN m.role ELSE "result", m.text, m.calls, m.call>> \in Tags
    <3>1. /\ m.role \in SpokenBy /\ m.text \in SpokenTexts
          /\ m.calls \in Seq(CallIds) /\ m.call \in CallIds \cup {NoId}
      BY DEF Sendable
    <3>2. (IF m.call = NoId THEN m.role ELSE "result") \in SpokenBy \cup {"result"}
      BY <3>1
    <3>3. QED
      BY <3>1, <3>2 DEF Tags
  <2>3. Tag \in [Sendable -> Tags]
    BY <2>2 DEF Tag
  <2>4. QED
    BY <2>1, <2>3 DEF Gives
<1>2. ASSUME NEW m \in Sendable
      PROVE  TellAs[m] = IF m.role # "system" /\ (m.text # <<>> \/ m.calls # <<>>)
                           THEN <<Tag[m]>> ELSE <<>>
  <2>1. TellAs[m] = Each(Tell[m], Tag)
    BY DEF TellAs, EachTwice
  <2>2. Each(<<>>, Tag) = <<>> /\ Each(<<m>>, Tag) = <<Tag[m]>>
    BY DEF Each
  <2>3. Tell[m] = IF m.role # "system" /\ (m.text # <<>> \/ m.calls # <<>>) THEN <<m>> ELSE <<>>
    BY DEF Tell
  <2>4. QED
    BY <2>1, <2>2, <2>3
<1>3. \A m \in Sendable : TellAs[m] \in Seq(Tags)
  <2>1. \A m \in Sendable : Tag[m] \in Tags
    BY <1>1 DEF Gives
  <2> HIDE DEF Tags
  <2>2. ASSUME NEW m \in Sendable PROVE TellAs[m] \in Seq(Tags)
    <3>1. <<Tag[m]>> \in Seq(Tags) /\ <<>> \in Seq(Tags)
      BY <2>1
    <3>2. QED
      BY <1>2, <3>1
  <2>3. QED
    BY <2>2
<1>4. TellAs \in Makes(Sendable, Tags)
  BY <1>3 DEF TellAs, EachTwice, Makes
<1>5. TellChat \in Makes(ChatMessage, Tags)
  BY <1>3 DEF TellChat, Makes, ChatMessage
<1>6. QED
  BY <1>1, <1>2, <1>4, <1>5

LEMMA ToldMapped ==
    ASSUME NEW s \in Seq(Sendable)
    PROVE  History!Told(s) = Mapped(s, TellAs)
<1> DEFINE t == Mapped(s, Tell)
<1>1. \A i \in DOMAIN s : s[i] \in Sendable
  BY ElementOfSeq, LenProperties
<1>2. [i \in DOMAIN s |->
         IF s[i].role # "system" /\ (s[i].text # <<>> \/ s[i].calls # <<>>) THEN <<s[i]>> ELSE <<>>]
        = [i \in DOMAIN s |-> Tell[s[i]]]
  BY <1>1 DEF Tell
<1>3. t = History!FlattenSeq([i \in DOMAIN s |->
         IF s[i].role # "system" /\ (s[i].text # <<>> \/ s[i].calls # <<>>) THEN <<s[i]>> ELSE <<>>])
  BY <1>2, HistoryFlattened, Zenon DEF Mapped
<1>4. t \in Seq(Sendable)
  BY TellTypes, MappedType DEF Makes
<1>5. History!Told(s)
        = [i \in DOMAIN t |-> <<IF t[i].call = NoId THEN t[i].role ELSE "result",
                                t[i].text, t[i].calls, t[i].call>>]
  <2> HIDE DEF t
  <2>1. QED
    BY <1>3, Zenon DEF History!Told, History!Selected, History!Mapped
<1>6. History!Told(s) = Each(t, Tag)
  <2> HIDE DEF t
  <2>1. \A i \in DOMAIN t : t[i] \in Sendable
    BY <1>4, ElementOfSeq, LenProperties
  <2>2. \A i \in DOMAIN t :
          Tag[t[i]] = <<IF t[i].call = NoId THEN t[i].role ELSE "result",
                        t[i].text, t[i].calls, t[i].call>>
    BY <2>1 DEF Tag
  <2>3. QED
    BY <1>5, <2>2 DEF Each
<1>7. QED
  BY <1>6, TellTypes, EachOfMapped DEF TellAs

(* Of a chat, and of what either family makes of it.                       *)
LEMMA ToldOfChat ==
    ASSUME NEW t \in Seq(ChatMessage)
    PROVE  /\ History!Told(t) = Mapped(t, TellChat)
           /\ History!Told(Mapped(t, Anthropic)) = Mapped(t, TellChat)
           /\ Mapped(t, TellChat) \in Seq(Tags)
<1>1. t \in Seq(Sendable)
  BY DEF ChatMessage
<1>2. Mapped(t, TellAs) = Mapped(t, TellChat)
  <2>1. \A m \in ChatMessage : TellAs[m] = TellChat[m]
    BY DEF TellChat
  <2>2. QED
    BY <2>1, MappedSame
<1>3. Mapped(t, Anthropic) \in Seq(Sendable)
  BY AnthropicTypes, MappedType DEF Makes
<1>4. Mapped(Mapped(t, Anthropic), TellAs) = Mapped(t, Twice(ChatMessage, Anthropic, TellAs))
  BY AnthropicTypes, TellTypes, MappedTwice
<1>5. ASSUME NEW m \in ChatMessage
      PROVE  Twice(ChatMessage, Anthropic, TellAs)[m] = TellChat[m]
  <2> DEFINE tool == History!Message("user", m.text, <<>>, m.call)
             other == History!Message(m.role, m.text, m.calls, NoId)
  <2>1. /\ m \in Sendable /\ (m.role = "tool" <=> m.call # NoId)
        /\ (m.calls # <<>> => m.role = "assistant")
    BY DEF ChatMessage
  <2>2. tool \in Sendable /\ other \in Sendable
    BY <2>1 DEF Sendable, History!Message, SpokenBy
  <2>3. /\ tool.role = "user" /\ tool.text = m.text /\ tool.calls = <<>> /\ tool.call = m.call
        /\ other.role = m.role /\ other.text = m.text /\ other.calls = m.calls /\ other.call = NoId
    BY DEF History!Message
  <2>4. Anthropic[m] = IF m.role = "system" THEN <<>>
                       ELSE IF m.role = "tool" THEN <<tool>>
                       ELSE IF m.text = <<>> /\ m.calls = <<>> THEN <<>> ELSE <<other>>
    BY DEF Anthropic, History!convertMessageToAnthropic
  <2> HIDE DEF tool, other
  <2>5. /\ Tag[m] = <<IF m.call = NoId THEN m.role ELSE "result", m.text, m.calls, m.call>>
        /\ Tag[tool] = <<IF m.call = NoId THEN "user" ELSE "result", m.text, <<>>, m.call>>
        /\ Tag[other] = <<m.role, m.text, m.calls, NoId>>
    BY <2>1, <2>2, <2>3 DEF Tag
  <2>6. /\ TellAs[tool] = IF m.text # <<>> THEN <<Tag[tool]>> ELSE <<>>
        /\ TellAs[other] = IF m.role # "system" /\ (m.text # <<>> \/ m.calls # <<>>)
                             THEN <<Tag[other]>> ELSE <<>>
        /\ TellChat[m] = IF m.role # "system" /\ (m.text # <<>> \/ m.calls # <<>>)
                           THEN <<Tag[m]>> ELSE <<>>
    BY <2>1, <2>2, <2>3, TellTypes DEF TellChat
  <2>7. Twice(ChatMessage, Anthropic, TellAs)[m] = Mapped(Anthropic[m], TellAs)
    BY DEF Twice
  <2>8. /\ Mapped(<<>>, TellAs) = <<>> /\ Mapped(<<other>>, TellAs) = TellAs[other]
        /\ Mapped(<<tool>>, TellAs) = TellAs[tool]
    <3>1. TellAs \in [Sendable -> Seq(Tags)]
      BY TellTypes DEF Makes
    <3>2. QED
      BY <2>2, <3>1, MappedOne, MappedEmpty
  <2>9. CASE m.role = "system"
    BY <2>4, <2>6, <2>7, <2>8, <2>9
  <2>10. CASE m.role = "tool"
    <3>1. m.calls = <<>> /\ m.call # NoId
      BY <2>1, <2>10
    <3>2. Tag[tool] = Tag[m]
      BY <2>5, <3>1
    <3>3. QED
      BY <2>4, <2>6, <2>7, <2>8, <2>10, <3>1, <3>2
  <2>11. CASE m.role \notin {"system", "tool"}
    <3>1. m.call = NoId
      BY <2>1, <2>11
    <3>2. Tag[other] = Tag[m]
      BY <2>5, <3>1
    <3>3. QED
      BY <2>4, <2>6, <2>7, <2>8, <2>11, <3>2
  <2>12. QED
    BY <2>9, <2>10, <2>11
<1>6. Mapped(t, Twice(ChatMessage, Anthropic, TellAs)) = Mapped(t, TellChat)
  BY <1>5, MappedSame
<1>7. Mapped(t, TellChat) \in Seq(Tags)
  BY TellTypes, MappedType DEF Makes
<1>8. QED
  BY <1>1, <1>2, <1>3, <1>4, <1>6, <1>7, ToldMapped

Known(items) ==
    History!FlattenSeq([i \in DOMAIN items |->
      IF items[i].type # "function_call" \/ items[i].call # NoId THEN <<items[i]>> ELSE <<>>])
SaidAs(o) ==
    History!Message("assistant", o.text, IF o.call = NoId THEN <<>> ELSE <<o.call>>, NoId)
SaidIn(items) == [i \in DOMAIN Known(items) |-> SaidAs(Known(items)[i])]
AllOf(input, said) ==
    SubSeq(input, 1, History!SystemLen(input)) \o said
      \o SubSeq(input, History!SystemLen(input) + 1, Len(input))

SaidBefore == IF ~asked.continues THEN <<>> ELSE SaidIn(stored)

LEMMA SaidIsBefore == History!Said = SaidBefore
BY DEF History!Said, SaidBefore, SaidIn, Known, SaidAs, History!Selected, History!Mapped

(* What was said, and behind it what is asked, is all that is told; the    *)
(* instructions are in front.                                              *)
Lead == History!Message("system", <<"instructions">>, <<>>, NoId)
ToldInOrder(messages, said, input) == History!Told(messages) = History!Told(Cat(said, input))

HistoryFirst ==
    sent.status = "sent" =>
      /\ ToldInOrder(sent.messages, SaidBefore, History!ToChatRequest(asked))
      /\ History!Told(sent.messages) \in Seq(Tags)
      /\ asked.instructions => sent.system \/ sent.messages[1] = Lead

LEMMA SuffixOfItself ==
    ASSUME NEW S, NEW s \in Seq(S)
    PROVE  History!IsSuffix(s, s)
<1>1. Len(s) \in Nat
  BY LenProperties
<1>2. History!Reverse(s) = [i \in 1..Len(s) |-> s[(Len(s) - i) + 1]]
  BY DEF History!Reverse
<1>3. Len(History!Reverse(s)) = Len(s)
  BY <1>1, <1>2
<1>4. QED
  BY <1>1, <1>3 DEF History!IsSuffix, History!IsPrefix

LEMMA HistoryTold == HistoryFirst => HistoryThenInput
<1>1. SUFFICES ASSUME HistoryFirst, sent.status = "sent"
      PROVE  /\ History!IsSuffix(History!Told(History!Said \o History!ToChatRequest(asked)),
                                 History!Told(sent.messages))
             /\ asked.instructions =>
                  sent.system
                    \/ sent.messages[1] = History!Message("system", <<"instructions">>, <<>>, NoId)
  BY DEF HistoryThenInput, History!HistoryThenInput, History!Sent
<1>2. PICK a, b : /\ a = History!Told(History!Said \o History!ToChatRequest(asked))
                  /\ b = History!Told(sent.messages)
  OBVIOUS
<1>3. a = b
  BY <1>1, <1>2, SaidIsBefore DEF HistoryFirst, ToldInOrder, Cat
<1>4. b \in Seq(Tags)
  BY <1>1, <1>2 DEF HistoryFirst
<1>5. History!IsSuffix(a, b)
  BY <1>3, <1>4, SuffixOfItself
<1>6. QED
  BY <1>1, <1>2, <1>5 DEF HistoryFirst, Lead

(* The previous answer, as messages.                                       *)
KnownOf == [o \in History!OutputItem |->
              IF o.type # "function_call" \/ o.call # NoId THEN <<o>> ELSE <<>>]
SpokenOf == [o \in History!OutputItem |-> SaidAs(o)]

LEMMA SpokenType == SpokenOf \in [History!OutputItem -> Replies]
<1>1. ASSUME NEW o \in History!OutputItem PROVE SaidAs(o) \in Replies
  <2>1. /\ o.text \in {<<>>, <<"model">>} /\ o.call \in CallIds \cup {NoId}
    BY DEF History!OutputItem
  <2>2. (IF o.call = NoId THEN <<>> ELSE <<o.call>>) \in Seq(CallIds)
    BY <2>1
  <2>3. QED
    BY <2>1, <2>2 DEF SaidAs, History!Message, Replies, ChatMessage, Sendable, SpokenBy, SpokenTexts
<1>2. QED
  BY <1>1 DEF SpokenOf

LEMMA SaidIsHistory ==
    ASSUME NEW items \in Seq(History!OutputItem)
    PROVE  SaidIn(items) = History!stateToHistory(items) /\ SaidIn(items) \in Seq(Replies)
<1> DEFINE S == History!OutputItem
           h == EachTwice(S, KnownOf, SpokenOf)
<1>0. DOMAIN items = 1..Len(items) /\ Len(items) \in Nat /\ \A i \in 1..Len(items) : items[i] \in S
  BY LenProperties, ElementOfSeq
<1>1. Known(items) = Mapped(items, KnownOf)
  <2>1. [i \in DOMAIN items |->
           IF items[i].type # "function_call" \/ items[i].call # NoId THEN <<items[i]>> ELSE <<>>]
        = [i \in DOMAIN items |-> KnownOf[items[i]]]
    BY <1>0 DEF KnownOf
  <2>2. QED
    BY <2>1, HistoryFlattened, Zenon DEF Known, Mapped
<1>2. KnownOf \in Makes(S, S)
  BY DEF KnownOf, Makes
<1>3. Mapped(items, KnownOf) \in Seq(S)
  BY <1>2, MappedType DEF Makes
<1>4. SaidIn(items) = Each(Mapped(items, KnownOf), SpokenOf)
  <2> DEFINE t == Mapped(items, KnownOf)
  <2>1. t \in Seq(S)
    BY <1>3
  <2>2. SaidIn(items) = [i \in DOMAIN t |-> SaidAs(t[i])]
    BY <1>1 DEF SaidIn
  <2> HIDE DEF t
  <2>3. \A i \in DOMAIN t : t[i] \in S
    BY <2>1, ElementOfSeq, LenProperties
  <2>4. \A i \in DOMAIN t : SaidAs(t[i]) = SpokenOf[t[i]]
    BY <2>3 DEF SpokenOf
  <2>5. Each(t, SpokenOf) = [i \in DOMAIN t |-> SpokenOf[t[i]]]
    BY DEF Each
  <2>6. [i \in DOMAIN t |-> SaidAs(t[i])] = [i \in DOMAIN t |-> SpokenOf[t[i]]]
    BY <2>4
  <2>7. QED
    BY <2>2, <2>5, <2>6 DEF t
<1>5. Each(Mapped(items, KnownOf), SpokenOf) = Mapped(items, h)
  <2>1. SpokenOf \in Gives(S, Replies)
    BY SpokenType DEF Gives
  <2>2. QED
    BY <1>2, <2>1, EachOfMapped
<1>6. ASSUME NEW o \in S
      PROVE  h[o] = IF o.type = "function_call"
                      THEN IF o.call = NoId THEN <<>>
                           ELSE <<History!Message("assistant", <<>>, <<o.call>>, NoId)>>
                      ELSE <<History!Message("assistant", o.text, <<>>, NoId)>>
  <2>1. h[o] = Each(KnownOf[o], SpokenOf)
    BY DEF EachTwice
  <2>2. Each(<<>>, SpokenOf) = <<>> /\ Each(<<o>>, SpokenOf) = <<SpokenOf[o]>>
    BY DEF Each
  <2>3. o.type = "function_call" => o.text = <<>>
    BY DEF History!OutputItem
  <2>4. o.type # "function_call" => o.call = NoId
    BY DEF History!OutputItem
  <2>5. KnownOf[o] = IF o.type # "function_call" \/ o.call # NoId THEN <<o>> ELSE <<>>
    BY DEF KnownOf
  <2>6. SpokenOf[o] = SaidAs(o)
    BY DEF SpokenOf
  <2> HIDE DEF h
  <2>7. QED
    BY <2>1, <2>2, <2>3, <2>4, <2>5, <2>6 DEF SaidAs
<1>7. History!stateToHistory(items) = Mapped(items, h)
  <2> DEFINE MadeOf(o) ==
               IF o.type = "function_call"
                 THEN IF o.call = NoId THEN <<>>
                      ELSE <<History!Message("assistant", <<>>, <<o.call>>, NoId)>>
                 ELSE <<History!Message("assistant", o.text, <<>>, NoId)>>
  <2>1. History!stateToHistory(items) = History!FlattenSeq([i \in DOMAIN items |-> MadeOf(items[i])])
    BY DEF History!stateToHistory, History!Mapped
  <2>2. \A o \in S : h[o] = MadeOf(o)
    BY <1>6
  <2> HIDE DEF MadeOf, h
  <2>3. [i \in DOMAIN items |-> MadeOf(items[i])] = [i \in DOMAIN items |-> h[items[i]]]
    BY <1>0, <2>2
  <2>4. QED
    BY <2>1, <2>3, HistoryFlattened, Zenon DEF Mapped
<1>8. Each(Mapped(items, KnownOf), SpokenOf) \in Seq(Replies)
  <2> DEFINE t == Mapped(items, KnownOf)
  <2>1. t \in Seq(S)
    BY <1>3
  <2> HIDE DEF t
  <2>2. DOMAIN t = 1..Len(t) /\ Len(t) \in Nat /\ \A i \in 1..Len(t) : SpokenOf[t[i]] \in Replies
    BY <2>1, SpokenType, ElementOfSeq, LenProperties
  <2>3. Each(t, SpokenOf) \in [1..Len(t) -> Replies]
    BY <2>2 DEF Each
  <2>4. Each(t, SpokenOf) \in Seq(Replies)
    BY <2>2, <2>3
  <2>5. QED
    BY <2>4 DEF t
<1>9. QED
  BY <1>4, <1>5, <1>7, <1>8

LEMMA AllIsGenuine ==
    ASSUME NEW msgs \in Seq(Plain), NEW said \in Seq(Replies)
    PROVE  AllOf(msgs, said) \in Seq(Genuine)
<1> DEFINE n == History!SystemLen(msgs)
<1>1. Plain \subseteq Genuine /\ Replies \subseteq Genuine
  BY DEF Plain, Replies, Genuine, History!IsPlaceholder
<1>2. msgs \in Seq(Genuine) /\ said \in Seq(Genuine)
  BY <1>1
<1>3. n \in 0..Len(msgs)
  BY SystemLenIs
<1> HIDE DEF n
<1>4. UpTo(msgs, n) \in Seq(Genuine) /\ After(msgs, n) \in Seq(Genuine)
  BY <1>2, <1>3, UpToIs, AfterIs
<1>5. Cat(Cat(UpTo(msgs, n), said), After(msgs, n)) \in Seq(Genuine)
  BY <1>2, <1>4, CatAssociative
<1>6. AllOf(msgs, said) = Cat(Cat(UpTo(msgs, n), said), After(msgs, n))
  BY DEF AllOf, Cat, UpTo, After, n
<1>7. QED
  BY <1>5, <1>6

(* MergeHistory puts the history between the system's messages and the     *)
(* others, and then has the calls answered.                                *)
LEMMA MergedIs ==
    ASSUME NEW msgs \in Seq(Plain), NEW said \in Seq(Replies), NEW all, all = AllOf(msgs, said)
    PROVE  \/ said = <<>> /\ History!MergeHistory(msgs, said) = all
           \/ said # <<>> /\ History!MergeHistory(msgs, said) = History!ensureToolCallsAnswered(all)
<1> DEFINE n == History!SystemLen(msgs)
<1>1. CASE said = <<>>
  <2>1. n \in 0..Len(msgs)
    BY SystemLenIs
  <2> HIDE DEF n
  <2>2. UpTo(msgs, n) \in Seq(Plain)
    BY <2>1, UpToIs
  <2>3. Cat(UpTo(msgs, n), <<>>) = UpTo(msgs, n)
    BY <2>2, CatEmpty
  <2>4. Cat(UpTo(msgs, n), After(msgs, n)) = msgs
    BY <2>1, CutInTwo
  <2>5. AllOf(msgs, <<>>) = Cat(Cat(UpTo(msgs, n), <<>>), After(msgs, n))
    BY DEF AllOf, Cat, UpTo, After, n
  <2>6. all = msgs
    BY <1>1, <2>3, <2>4, <2>5
  <2>7. QED
    BY <1>1, <2>6 DEF History!MergeHistory
<1>2. CASE said # <<>>
  BY <1>2 DEF History!MergeHistory, AllOf
<1>3. QED
  BY <1>1, <1>2

(* The system's messages in front tell nothing, so what is told of all is  *)
(* told of what was said and then of the input.                            *)
LEMMA AllIsTold ==
    ASSUME NEW msgs \in Seq(Plain), NEW said \in Seq(Replies)
    PROVE  /\ Cat(said, msgs) \in Seq(ChatMessage)
           /\ Mapped(AllOf(msgs, said), TellChat) = Mapped(Cat(said, msgs), TellChat)
<1> DEFINE Systems == {m \in ChatMessage : m.role = "system"}
<1>1. PICK n : n = History!SystemLen(msgs)
  OBVIOUS
<1>2. n \in 0..Len(msgs) /\ \A i \in 1..n : msgs[i].role = "system"
  BY <1>1, SystemLenIs
<1>3. PICK f, b : f = UpTo(msgs, n) /\ b = After(msgs, n)
  OBVIOUS
<1>4. msgs \in Seq(ChatMessage) /\ said \in Seq(ChatMessage)
  BY DEF Plain, Replies
<1>5. /\ f \in Seq(ChatMessage) /\ Len(f) = n /\ \A i \in 1..n : f[i] = msgs[i]
      /\ b \in Seq(ChatMessage) /\ Cat(f, b) = msgs
  BY <1>2, <1>3, <1>4, UpToIs, AfterIs, CutInTwo
<1>6. f \in Seq(Systems)
  <2>1. DOMAIN f = 1..Len(f) /\ Len(f) \in Nat /\ f = [i \in 1..Len(f) |-> f[i]]
        /\ \A i \in 1..Len(f) : f[i] \in ChatMessage
    BY <1>5, LenProperties, ElementOfSeq
  <2>2. \A i \in 1..Len(f) : f[i] \in Systems
    BY <1>2, <1>5, <2>1
  <2> HIDE DEF Systems
  <2>3. f \in [1..Len(f) -> Systems]
    BY <2>1, <2>2
  <2>4. QED
    BY <2>1, <2>3
<1>7. Mapped(f, TellChat) = <<>>
  <2>1. \A m \in Systems : TellChat[m] = <<>>
    BY TellTypes DEF TellChat, ChatMessage
  <2> HIDE DEF Systems
  <2>2. QED
    BY <1>6, <2>1, MappedToNothing
<1>8. AllOf(msgs, said) = Cat(Cat(f, said), b)
  BY <1>1, <1>3 DEF AllOf, Cat, UpTo, After
<1>9. PICK x, y : x = Mapped(said, TellChat) /\ y = Mapped(b, TellChat)
  OBVIOUS
<1>10. TellChat \in [ChatMessage -> Seq(Tags)]
  BY TellTypes DEF Makes
<1>11. x \in Seq(Tags) /\ y \in Seq(Tags)
  BY <1>4, <1>5, <1>9, <1>10, MappedType
<1>12. Cat(f, said) \in Seq(ChatMessage) /\ Cat(said, msgs) \in Seq(ChatMessage)
  BY <1>4, <1>5, CatIs
<1>13. Mapped(Cat(f, said), TellChat) = x
  <2>1. Mapped(Cat(f, said), TellChat) = Cat(Mapped(f, TellChat), Mapped(said, TellChat))
    BY <1>4, <1>5, <1>10, MappedCat
  <2>2. QED
    BY <1>7, <1>9, <1>11, <2>1, CatEmpty
<1>14. Mapped(Cat(Cat(f, said), b), TellChat) = Cat(x, y)
  <2>1. PICK w : w = Cat(f, said)
    OBVIOUS
  <2>2. w \in Seq(ChatMessage) /\ b \in Seq(ChatMessage)
    BY <1>5, <1>12, <2>1
  <2>3. Mapped(Cat(w, b), TellChat) = Cat(Mapped(w, TellChat), Mapped(b, TellChat))
    BY <1>10, <2>2, MappedCat, Zenon
  <2>4. QED
    BY <1>9, <1>13, <2>1, <2>3
<1>15. Mapped(msgs, TellChat) = y
  <2>1. Mapped(Cat(f, b), TellChat) = Cat(Mapped(f, TellChat), Mapped(b, TellChat))
    BY <1>5, <1>10, MappedCat
  <2>2. QED
    BY <1>5, <1>7, <1>9, <1>11, <2>1, CatEmpty
<1>16. Mapped(Cat(said, msgs), TellChat) = Cat(x, y)
  <2>1. Mapped(Cat(said, msgs), TellChat) = Cat(Mapped(said, TellChat), Mapped(msgs, TellChat))
    BY <1>4, <1>10, MappedCat
  <2>2. QED
    BY <1>9, <1>15, <2>1
<1>17. QED
  BY <1>8, <1>12, <1>14, <1>16

(* Placeholders tell nothing, and come behind a message.                   *)
LEMMA AnsweringTellsAll ==
    ASSUME NEW s \in Seq(Genuine), NEW t, t = s \/ t = History!ensureToolCallsAnswered(s)
    PROVE  Mapped(t, TellChat) = Mapped(s, TellChat)
<1>1. s \in Seq(ChatMessage)
  BY DEF Genuine
<1>2. TellChat \in [ChatMessage -> Seq(Tags)]
  BY TellTypes DEF Makes
<1>3. \A m \in Answers : TellChat[m] = <<>>
  BY TellTypes DEF TellChat, Answers, ChatMessage
<1>4. QED
  BY <1>1, <1>2, <1>3, PlaceholdersPass

LEMMA FirstStays ==
    ASSUME NEW s \in Seq(Genuine), Len(s) > 0, NEW t, t = History!ensureToolCallsAnswered(s)
    PROVE  t[1] = s[1]
<1> DEFINE P(i) == History!Placeholders(s[i].calls, History!AnsweredAfter(s, i))
           B == [i \in DOMAIN s |-> Then(s[i], P(i))]
           n == Len(s)
<1>1. t = FlattenSeq(B)
  BY HistoryFlattened DEF History!ensureToolCallsAnswered, History!Answering, Then
<1>2. n \in Nat /\ n > 0 /\ DOMAIN s = 1..n /\ \A i \in 1..n : s[i] \in Genuine
  BY LenProperties, ElementOfSeq
<1>3. ASSUME NEW i \in 1..n
      PROVE  B[i] \in Seq(ChatMessage) /\ 1 \in 1..Len(B[i]) /\ B[i][1] = s[i]
  <2> DEFINE m == s[i]
             calls == m.calls
             answered == History!AnsweredAfter(s, i)
             p == P(i)
             b == Then(m, p)
  <2>1. m \in ChatMessage /\ calls \in Seq(CallIds) /\ B[i] = b
    BY <1>2 DEF Genuine, ChatMessage, Sendable
  <2>2. p = History!Placeholders(calls, answered)
    OBVIOUS
  <2> HIDE DEF m, calls, answered, p, P, B
  <2>3. p \in Seq(Answers)
    BY <2>1, <2>2, PlaceholdersGiven
  <2>4. p \in Seq(ChatMessage)
    BY <2>3 DEF Answers
  <2>5. b = Then(m, p)
    OBVIOUS
  <2> HIDE DEF b
  <2>6. b \in Seq(ChatMessage) /\ Len(b) = Len(p) + 1 /\ b[1] = m
    BY <2>1, <2>4, <2>5, Headed, Z3
  <2>7. Len(p) \in Nat
    BY <2>4, LenProperties
  <2>8. QED
    BY <2>1, <2>6, <2>7 DEF m
<1>4. B \in [DOMAIN s -> Seq(ChatMessage)]
  BY <1>2, <1>3
<1> HIDE DEF B, P
<1>5. B \in Seq(Seq(ChatMessage)) /\ Len(B) = n
  BY <1>4, SameLength
<1>6. PICK off : InPlace(t, B, off)
  BY <1>1, <1>5, FlattenedInPlace
<1>7. t \in Seq(ChatMessage) /\ Len(t) \in Nat /\ DOMAIN t = 1..Len(t)
  BY <1>1, <1>5, FlattenType, LenProperties
<1>8. 1 \in 1..n /\ 1 \in 1..Len(B[1])
  BY <1>2, <1>3
<1>9. Place(off, 1, 1) \in 1..Len(t) /\ t[Place(off, 1, 1)] = B[1][1]
  BY <1>5, <1>6, <1>7, <1>8 DEF InPlace
<1>10. 1 \in DOMAIN t
  BY <1>7, <1>9
<1>11. PICK i \in 1..n : \E k \in 1..Len(B[i]) : 1 = Place(off, i, k)
  BY <1>5, <1>6, <1>10 DEF InPlace
<1>12. PICK k \in 1..Len(B[i]) : 1 = Place(off, i, k)
  BY <1>11
<1>13. ~(1 < i \/ (1 = i /\ 1 < k))
  <2>1. 1 < i \/ (1 = i /\ 1 < k) => Place(off, 1, 1) < Place(off, i, k)
    BY <1>5, <1>6, <1>8 DEF InPlace
  <2>2. QED
    BY <1>7, <1>9, <1>12, <2>1
<1>14. Len(B[i]) \in Nat
  BY <1>3, LenProperties
<1>15. i = 1 /\ k = 1
  BY <1>2, <1>13, <1>14
<1>16. QED
  BY <1>3, <1>8, <1>9, <1>12, <1>15

(* Instructions stay in front of it all.                                   *)
LEMMA LeadIsFirst ==
    ASSUME NEW msgs \in Seq(Plain), Len(msgs) > 0, msgs[1] = Lead, NEW said \in Seq(Replies),
           NEW t, t = AllOf(msgs, said) \/ t = History!ensureToolCallsAnswered(AllOf(msgs, said))
    PROVE  t[1] = Lead
<1>1. PICK n : n = History!SystemLen(msgs)
  OBVIOUS
<1>2. /\ n \in 0..Len(msgs)
      /\ \A k \in 0..Len(msgs) : (\A i \in 1..k : msgs[i].role = "system") => k <= n
  BY <1>1, SystemLenIs
<1>3. Len(msgs) \in Nat
  BY LenProperties
<1>4. 1 <= n
  <2>1. Lead.role = "system"
    BY DEF Lead, History!Message
  <2>2. \A i \in 1..1 : msgs[i].role = "system"
    BY <2>1
  <2>3. 1 \in 0..Len(msgs)
    BY <1>3
  <2>4. QED
    BY <1>2, <2>2, <2>3
<1>5. PICK f, b, s : f = UpTo(msgs, n) /\ b = After(msgs, n) /\ s = AllOf(msgs, said)
  OBVIOUS
<1>6. s \in Seq(Genuine)
  BY <1>5, AllIsGenuine
<1>7. f \in Seq(Plain) /\ Len(f) = n /\ f[1] = Lead /\ b \in Seq(Plain)
  <2>1. 1 \in 1..n
    BY <1>2, <1>4
  <2>2. QED
    BY <1>2, <1>5, <2>1, UpToIs, AfterIs
<1>8. s = Cat(Cat(f, said), b)
  BY <1>1, <1>5 DEF AllOf, Cat, UpTo, After
<1>9. f \in Seq(Genuine) /\ b \in Seq(Genuine) /\ said \in Seq(Genuine)
  <2>1. Plain \subseteq Genuine /\ Replies \subseteq Genuine
    BY DEF Plain, Replies, Genuine, History!IsPlaceholder
  <2>2. QED
    BY <1>7, <2>1
<1>10. Len(s) = Len(f) + Len(said) + Len(b) /\ \A i \in 1..Len(f) : s[i] = f[i]
  <2>1. ThreeParts(s, f, said, b)
    BY <1>8, <1>9, AllInPlace
  <2>2. QED
    BY <2>1 DEF ThreeParts
<1>11. Len(said) \in Nat /\ Len(b) \in Nat /\ 1 \in 1..Len(f)
  BY <1>2, <1>4, <1>7, LenProperties
<1>12. Len(s) > 0 /\ s[1] = Lead
  BY <1>7, <1>10, <1>11
<1>13. QED
  BY <1>5, <1>6, <1>12, FirstStays

LEMMA OpenAISends ==
    ASSUME NEW t \in Seq(ChatMessage)
    PROVE  History!ToOpenAIChatRequest(t).messages = t
<1> DEFINE k == [m \in ChatMessage |-> History!convertMessageToOpenAI(m)]
<1>1. \A m \in ChatMessage : k[m] = m
  BY DEF History!convertMessageToOpenAI, History!Message, ChatMessage, Sendable
<1>2. \A i \in DOMAIN t : t[i] \in ChatMessage
  BY ElementOfSeq, LenProperties
<1>3. History!ToOpenAIChatRequest(t).messages = [i \in DOMAIN t |-> History!convertMessageToOpenAI(t[i])]
  BY DEF History!ToOpenAIChatRequest, History!Mapped
<1>4. [i \in DOMAIN t |-> History!convertMessageToOpenAI(t[i])] = Each(t, k)
  BY <1>2 DEF Each
<1> HIDE DEF k
<1>5. QED
  BY <1>1, <1>3, <1>4, EachSame

LEMMA AnthropicSends ==
    ASSUME NEW t \in Seq(ChatMessage), NEW instructions,
           NEW q, q = History!ToAnthropicRequest(t, instructions), q.status = "sent"
    PROVE  q.messages = Mapped(t, Anthropic) /\ q.system = instructions
<1> DEFINE MadeOf(m) == IF m.role = "system" THEN <<>> ELSE History!convertMessageToAnthropic(m)
           B == [i \in DOMAIN t |-> MadeOf(t[i])]
<1>1. q = IF History!FlattenSeq(B) = <<>> THEN [History!Unsent EXCEPT !.status = "refused"]
          ELSE [status |-> "sent", system |-> instructions, messages |-> History!FlattenSeq(B)]
  BY DEF History!ToAnthropicRequest, History!Mapped
<1>2. B = [i \in DOMAIN t |-> Anthropic[t[i]]]
  <2>1. \A i \in DOMAIN t : t[i] \in ChatMessage
    BY ElementOfSeq, LenProperties
  <2>2. QED
    BY <2>1 DEF Anthropic
<1>3. History!FlattenSeq(B) = Mapped(t, Anthropic)
  BY <1>2, HistoryFlattened, Zenon DEF Mapped
<1> HIDE DEF B
<1>4. History!FlattenSeq(B) # <<>>
  BY <1>1 DEF History!Unsent
<1>5. QED
  BY <1>1, <1>3, <1>4

----------------------------------------------------------------------------
(* HistoryReplay: the last call's result, sent at once, has no placeholder *)
(* beside it.                                                              *)

(* The input, as messages.                                                 *)
MakeOf ==
    [item \in History!Items |->
       CASE item.type = "unknown" -> <<>>
         [] item.type = "empty" -> <<History!Message("user", <<>>, <<>>, NoId)>>
         [] OTHER -> <<History!Message(item.role, <<"client">>, <<>>, item.call)>>]
Instructing(r) == IF r.instructions THEN <<Lead>> ELSE <<>>
Results == {item \in History!Items : item.role = "tool"}
ResultOf == [item \in Results |-> History!Message("tool", <<"client">>, <<>>, item.call)]

LEMMA InputIs ==
    ASSUME NEW r, r.instructions \in BOOLEAN, r.input \in Seq(History!Items)
    PROVE  /\ History!ToChatRequest(r) = Cat(Instructing(r), Mapped(r.input, MakeOf))
           /\ MakeOf \in Makes(History!Items, Plain) /\ Mapped(r.input, MakeOf) \in Seq(Plain)
           /\ Instructing(r) \in Seq(Plain) /\ Len(Instructing(r)) = IF r.instructions THEN 1 ELSE 0
           /\ r.instructions => Instructing(r)[1] = Lead
           /\ Lead.role = "system"
<1> DEFINE items == r.input
           MadeOf(item) ==
             CASE item.type = "unknown" -> <<>>
               [] item.type = "empty" -> <<History!Message("user", <<>>, <<>>, NoId)>>
               [] OTHER -> <<History!Message(item.role, <<"client">>, <<>>, item.call)>>
           B == [i \in DOMAIN items |-> MadeOf(items[i])]
<1>1. History!ToChatRequest(r) = Instructing(r) \o History!FlattenSeq(B)
  BY DEF History!ToChatRequest, History!Mapped, Instructing, Lead
<1>2. ASSUME NEW item \in History!Items PROVE MadeOf(item) \in Seq(Plain)
  <2>1. \/ item.type = "unknown"
        \/ item.type = "empty"
        \/ item.type \notin {"unknown", "empty"} /\ item.role = "tool" /\ item.call \in CallIds
        \/ item.type \notin {"unknown", "empty"} /\ item.call = NoId
             /\ item.role \in {"user", "assistant", "system", "developer"}
    BY DEF History!Items
  <2>2. NoId \notin CallIds
    BY RequestPathAssumption
  <2>3. History!Message("user", <<>>, <<>>, NoId) \in Plain
    BY DEF History!Message, Plain, ChatMessage, Sendable, SpokenBy, SpokenTexts
  <2>4. item.type \notin {"unknown", "empty"} =>
          History!Message(item.role, <<"client">>, <<>>, item.call) \in Plain
    <3>1. item.type \notin {"unknown", "empty"} =>
            /\ item.role \in SpokenBy /\ item.call \in CallIds \cup {NoId}
            /\ (item.role = "tool" <=> item.call # NoId)
      BY <2>1, <2>2 DEF SpokenBy
    <3>2. <<"client">> # <<>> /\ <<"client">> \in SpokenTexts /\ <<>> \in Seq(CallIds)
      BY DEF SpokenTexts
    <3>3. QED
      BY <3>1, <3>2 DEF History!Message, Plain, ChatMessage, Sendable
  <2>5. QED
    BY <2>1, <2>3, <2>4
<1>3. \A item \in History!Items : MakeOf[item] = MadeOf(item)
  BY DEF MakeOf
<1>4. MakeOf \in Makes(History!Items, Plain)
  <2> HIDE DEF MadeOf
  <2>1. \A item \in History!Items : MakeOf[item] \in Seq(Plain)
    BY <1>2, <1>3
  <2>2. QED
    BY <2>1 DEF Makes, MakeOf
<1> HIDE DEF MadeOf
<1>5. History!FlattenSeq(B) = Mapped(items, MakeOf)
  <2>1. \A i \in DOMAIN items : items[i] \in History!Items
    BY ElementOfSeq, LenProperties
  <2>2. B = [i \in DOMAIN items |-> MakeOf[items[i]]]
    BY <1>3, <2>1
  <2>3. QED
    BY <2>2, HistoryFlattened, Zenon DEF Mapped
<1>6. Mapped(items, MakeOf) \in Seq(Plain)
  BY <1>4, MappedType DEF Makes
<1>7. Lead \in Plain /\ Lead.role = "system"
  BY DEF Lead, History!Message, Plain, ChatMessage, Sendable, SpokenBy, SpokenTexts
<1>8. /\ Instructing(r) \in Seq(Plain) /\ Len(Instructing(r)) = (IF r.instructions THEN 1 ELSE 0)
      /\ r.instructions => Instructing(r)[1] = Lead
  <2>1. <<Lead>> \in Seq(Plain) /\ Len(<<Lead>>) = 1 /\ <<Lead>>[1] = Lead
    BY <1>7
  <2>2. <<>> \in Seq(Plain) /\ Len(<<>>) = 0
    OBVIOUS
  <2> HIDE DEF Lead
  <2>3. CASE r.instructions
    BY <2>1, <2>3 DEF Instructing
  <2>4. CASE ~r.instructions
    BY <2>2, <2>4 DEF Instructing
  <2>5. QED
    BY <2>3, <2>4
<1>9. History!ToChatRequest(r) = Cat(Instructing(r), Mapped(r.input, MakeOf))
  BY <1>1, <1>5, Zenon DEF Cat
<1>10. QED
  BY <1>4, <1>6, <1>7, <1>8, <1>9

LEMMA InputMakesNoCalls ==
    ASSUME NEW r, r.instructions \in BOOLEAN, r.input \in Seq(History!Items)
    PROVE  /\ History!ToChatRequest(r) \in Seq(Plain)
           /\ r.instructions =>
                Len(History!ToChatRequest(r)) > 0 /\ History!ToChatRequest(r)[1] = Lead
<1>1. PICK f, m : f = Instructing(r) /\ m = Mapped(r.input, MakeOf)
  OBVIOUS
<1>2. /\ History!ToChatRequest(r) = Cat(f, m) /\ f \in Seq(Plain) /\ m \in Seq(Plain)
      /\ r.instructions => Len(f) = 1 /\ f[1] = Lead
  <2>1. /\ History!ToChatRequest(r) = Cat(Instructing(r), Mapped(r.input, MakeOf))
        /\ Mapped(r.input, MakeOf) \in Seq(Plain) /\ Instructing(r) \in Seq(Plain)
        /\ Len(Instructing(r)) = IF r.instructions THEN 1 ELSE 0
        /\ r.instructions => Instructing(r)[1] = Lead
    BY InputIs
  <2>2. QED
    BY <1>1, <2>1
<1>3. /\ Cat(f, m) \in Seq(Plain) /\ Len(Cat(f, m)) = Len(f) + Len(m)
      /\ \A i \in 1 .. Len(f) + Len(m) :
           Cat(f, m)[i] = IF i <= Len(f) THEN f[i] ELSE m[i - Len(f)]
  BY <1>2, CatIs
<1>4. Len(m) \in Nat
  BY <1>2, LenProperties
<1>5. ASSUME r.instructions PROVE Len(Cat(f, m)) > 0 /\ Cat(f, m)[1] = Lead
  <2>1. Len(f) = 1 /\ f[1] = Lead
    BY <1>2, <1>5
  <2>2. 1 \in 1 .. Len(f) + Len(m) /\ Len(f) + Len(m) > 0
    BY <1>4, <2>1
  <2>3. Cat(f, m)[1] = f[1]
    BY <1>3, <2>1, <2>2
  <2>4. QED
    BY <1>3, <2>1, <2>2, <2>3
<1>6. QED
  BY <1>2, <1>3, <1>5

(* The calls whose results begin a sequence of messages.                   *)
BeginsOf(s) == {s[j].call : j \in {j \in DOMAIN s : \A k \in 1..j : s[k].role = "tool"}}

(* Results that begin the input begin what is put behind the history.      *)
LEMMA ResultsBegin ==
    ASSUME NEW r, r.instructions \in BOOLEAN, r.input \in Seq(History!Items),
           NEW k \in DOMAIN r.input, \A i \in 1..k : r.input[i].role = "tool",
           NEW msgs, msgs = History!ToChatRequest(r)
    PROVE  r.input[k].call \in BeginsOf(After(msgs, History!SystemLen(msgs)))
<1>1. PICK f, m, l, u, v : /\ f = Instructing(r) /\ m = Mapped(r.input, MakeOf) /\ l = Len(f)
                           /\ u = UpTo(r.input, k) /\ v = After(r.input, k)
  OBVIOUS
<1>2. /\ msgs = Cat(f, m) /\ f \in Seq(Plain) /\ m \in Seq(Plain)
      /\ MakeOf \in [History!Items -> Seq(Plain)]
      /\ l = (IF r.instructions THEN 1 ELSE 0)
      /\ \A i \in 1..l : f[i].role = "system"
  <2>1. /\ History!ToChatRequest(r) = Cat(Instructing(r), Mapped(r.input, MakeOf))
        /\ MakeOf \in [History!Items -> Seq(Plain)]
        /\ Mapped(r.input, MakeOf) \in Seq(Plain) /\ Instructing(r) \in Seq(Plain)
        /\ Len(Instructing(r)) = IF r.instructions THEN 1 ELSE 0
        /\ r.instructions => Instructing(r)[1] = Lead
        /\ Lead.role = "system"
    BY InputIs DEF Makes
  <2>2. l = (IF r.instructions THEN 1 ELSE 0)
    BY <1>1, <2>1
  <2>3. \A i \in 1..l : f[i].role = "system"
    <3>1. ASSUME NEW i \in 1..l PROVE i = 1 /\ r.instructions
      BY <2>2
    <3>2. QED
      BY <1>1, <2>1, <3>1
  <2>4. QED
    BY <1>1, <2>1, <2>2, <2>3
<1>3. Len(r.input) \in Nat /\ DOMAIN r.input = 1..Len(r.input) /\ k \in 1..Len(r.input)
      /\ \A i \in 1..k : r.input[i] \in History!Items
  <2>1. Len(r.input) \in Nat /\ DOMAIN r.input = 1..Len(r.input)
    BY LenProperties
  <2>2. \A i \in 1..Len(r.input) : r.input[i] \in History!Items
    BY ElementOfSeq
  <2>3. QED
    BY <2>1, <2>2
<1>4. /\ u \in Seq(History!Items) /\ Len(u) = k /\ \A i \in 1..k : u[i] = r.input[i]
      /\ v \in Seq(History!Items) /\ Cat(u, v) = r.input
  <2>1. PICK s : s = r.input
    OBVIOUS
  <2>2. s \in Seq(History!Items) /\ k \in 0..Len(s)
    BY <1>3, <2>1
  <2>3. u = UpTo(s, k) /\ v = After(s, k)
    BY <1>1, <2>1
  <2>4. u \in Seq(History!Items) /\ Len(u) = k /\ \A i \in 1..k : u[i] = s[i]
    BY <2>2, <2>3, UpToIs
  <2>5. v \in Seq(History!Items)
    BY <2>2, <2>3, AfterIs
  <2>6. Cat(u, v) = s
    BY <2>2, <2>3, CutInTwo
  <2>7. QED
    BY <2>1, <2>4, <2>5, <2>6
<1>5. u \in Seq(Results)
  <2>1. DOMAIN u = 1..k /\ k \in Nat /\ u = [i \in 1..k |-> u[i]]
    BY <1>3, <1>4, LenProperties
  <2>2. ASSUME NEW i \in 1..k PROVE u[i] \in Results
    <3>1. u[i] = r.input[i] /\ r.input[i] \in History!Items /\ r.input[i].role = "tool"
      BY <1>3, <1>4
    <3> HIDE DEF History!Items
    <3>2. QED
      BY <3>1 DEF Results
  <2> HIDE DEF Results
  <2>3. u \in [1..k -> Results]
    BY <2>1, <2>2
  <2>4. QED
    BY <2>1, <2>3
<1>6. PICK x, y : x = Mapped(u, MakeOf) /\ y = Mapped(v, MakeOf)
  OBVIOUS
<1>7. x = Each(u, ResultOf)
  <2>1. ASSUME NEW item \in Results PROVE MakeOf[item] = Singly(Results, ResultOf)[item]
    <3>1. item \in History!Items /\ item.role = "tool"
      BY DEF Results
    <3>2. item.type \notin {"unknown", "empty"}
      BY <3>1 DEF History!Items
    <3>3. QED
      BY <3>1, <3>2 DEF MakeOf, Singly, ResultOf
  <2>2. x = Mapped(u, Singly(Results, ResultOf))
    BY <1>5, <1>6, <2>1, MappedSame
  <2>3. \E T : ResultOf \in [Results -> T]
    <3>1. ResultOf \in [Results -> {ResultOf[item] : item \in Results}]
      BY DEF ResultOf
    <3>2. QED
      BY <3>1
  <2>4. PICK T : ResultOf \in [Results -> T]
    BY <2>3
  <2>5. QED
    BY <1>5, <2>2, <2>4, MappedEach
<1>8. /\ x \in Seq(Plain) /\ y \in Seq(Plain) /\ m = Cat(x, y)
  <2>1. u \in Seq(History!Items) /\ v \in Seq(History!Items) /\ Cat(u, v) = r.input
    BY <1>4
  <2>2. MakeOf \in [History!Items -> Seq(Plain)]
    BY <1>2
  <2>3. Mapped(u, MakeOf) \in Seq(Plain) /\ Mapped(v, MakeOf) \in Seq(Plain)
    BY <2>1, <2>2, MappedType
  <2>4. Mapped(Cat(u, v), MakeOf) = Cat(Mapped(u, MakeOf), Mapped(v, MakeOf))
    BY <2>1, <2>2, MappedCat
  <2>5. QED
    BY <1>1, <1>6, <2>1, <2>3, <2>4
<1>9. Len(x) = k /\ \A i \in 1..k : x[i].role = "tool" /\ x[i].call = r.input[i].call
  <2>1. DOMAIN u = 1..k /\ k \in Nat
    BY <1>3, <1>4, LenProperties
  <2>2. ASSUME NEW i \in 1..k PROVE x[i] = ResultOf[u[i]] /\ u[i] \in Results
    <3>1. Len(u) = k
      BY <1>4
    <3>2. u[i] \in Results
      BY <1>5, <3>1, ElementOfSeq
    <3>3. QED
      BY <1>7, <2>1, <3>2 DEF Each
  <2>3. \A i \in 1..k : x[i].role = "tool" /\ x[i].call = u[i].call
    <3>1. \A item \in Results : ResultOf[item].role = "tool" /\ ResultOf[item].call = item.call
      BY DEF ResultOf, History!Message
    <3>2. QED
      BY <2>2, <3>1
  <2>4. DOMAIN x = 1..k
    BY <1>7, <2>1 DEF Each
  <2>5. Len(x) = k
    <3>1. Len(x) \in Nat /\ DOMAIN x = 1..Len(x)
      BY <1>8, LenProperties
    <3>2. QED
      BY <2>1, <2>4, <3>1
  <2>6. QED
    BY <1>4, <2>3, <2>5
<1>10. PICK q : q = Len(msgs)
  OBVIOUS
<1>11. /\ l \in Nat /\ k \in Nat /\ k >= 1 /\ q \in Nat /\ q >= l + k
       /\ \A i \in 1..l : msgs[i].role = "system"
       /\ \A i \in 1..k : msgs[l + i].role = "tool" /\ msgs[l + i].call = r.input[i].call
       /\ msgs \in Seq(Plain)
  <2>1. Len(y) \in Nat /\ Len(m) = k + Len(y)
        /\ \A i \in 1 .. k + Len(y) : m[i] = IF i <= k THEN x[i] ELSE y[i - k]
    <3>1. x \in Seq(Plain) /\ y \in Seq(Plain) /\ Len(x) = k /\ m = Cat(x, y)
      BY <1>8, <1>9
    <3>2. /\ Len(Cat(x, y)) = Len(x) + Len(y)
          /\ \A i \in 1 .. Len(x) + Len(y) :
               Cat(x, y)[i] = IF i <= Len(x) THEN x[i] ELSE y[i - Len(x)]
      BY <3>1, CatIs
    <3>3. Len(y) \in Nat
      BY <3>1, LenProperties
    <3>4. QED
      BY <3>1, <3>2, <3>3
  <2>2. msgs \in Seq(Plain) /\ Len(msgs) = l + Len(m)
        /\ \A i \in 1 .. l + Len(m) : msgs[i] = IF i <= l THEN f[i] ELSE m[i - l]
    <3>1. f \in Seq(Plain) /\ m \in Seq(Plain) /\ Len(f) = l /\ msgs = Cat(f, m)
      BY <1>1, <1>2
    <3>2. /\ Cat(f, m) \in Seq(Plain) /\ Len(Cat(f, m)) = Len(f) + Len(m)
          /\ \A i \in 1 .. Len(f) + Len(m) :
               Cat(f, m)[i] = IF i <= Len(f) THEN f[i] ELSE m[i - Len(f)]
      BY <3>1, CatIs
    <3>3. QED
      BY <3>1, <3>2
  <2>3. l \in Nat /\ k \in Nat /\ k >= 1
    BY <1>2, <1>3
  <2>4. \A i \in 1..k : m[i] = x[i]
    BY <2>1, <2>3
  <2>5. \A i \in 1..l : msgs[i] = f[i]
    BY <2>1, <2>2, <2>3
  <2>6. ASSUME NEW i \in 1..k PROVE msgs[l + i] = m[i]
    <3>1. l + i \in 1 .. l + Len(m) /\ ~(l + i <= l) /\ (l + i) - l = i
      BY <2>1, <2>3
    <3>2. QED
      BY <2>2, <3>1
  <2>7. \A i \in 1..l : msgs[i].role = "system"
    BY <1>2, <2>5
  <2>8. \A i \in 1..k : msgs[l + i].role = "tool" /\ msgs[l + i].call = r.input[i].call
    BY <1>9, <2>4, <2>6
  <2>9. QED
    BY <1>10, <2>1, <2>2, <2>3, <2>7, <2>8
<1>12. PICK n : n = History!SystemLen(msgs)
  OBVIOUS
<1>13. /\ n \in 0..q /\ \A i \in 1..n : msgs[i].role = "system"
       /\ \A j \in 0..q : (\A i \in 1..j : msgs[i].role = "system") => j <= n
  <2>1. msgs \in Seq(Plain)
    BY <1>11
  <2>2. /\ n \in 0..Len(msgs) /\ \A i \in 1..n : msgs[i].role = "system"
        /\ \A j \in 0..Len(msgs) : (\A i \in 1..j : msgs[i].role = "system") => j <= n
    BY <1>12, <2>1, SystemLenIs
  <2>3. QED
    BY <1>10, <2>2
<1>14. n = l
  <2>1. l <= n
    <3>1. l \in 0..q
      BY <1>11
    <3>2. \A i \in 1..l : msgs[i].role = "system"
      BY <1>11
    <3>3. QED
      BY <1>13, <3>1, <3>2
  <2>2. ~(l + 1 <= n)
    <3>1. l + 1 <= n => msgs[l + 1].role = "system"
      <4>1. l \in Nat /\ n \in Nat /\ \A i \in 1..n : msgs[i].role = "system"
        BY <1>11, <1>13
      <4>2. QED
        BY <4>1
    <3>2. msgs[l + 1].role = "tool"
      <4>1. 1 \in 1..k /\ \A i \in 1..k : msgs[l + i].role = "tool"
        BY <1>11
      <4>2. QED
        BY <4>1
    <3>3. QED
      BY <3>1, <3>2
  <2>3. QED
    BY <1>11, <1>13, <2>1, <2>2
<1>15. PICK b : b = After(msgs, n)
  OBVIOUS
<1>16. b \in Seq(Plain) /\ Len(b) = q - n /\ \A i \in 1 .. q - n : b[i] = msgs[n + i]
  <2>1. n \in 0..Len(msgs)
    BY <1>10, <1>13
  <2>2. msgs \in Seq(Plain)
    BY <1>11
  <2>3. /\ After(msgs, n) \in Seq(Plain) /\ Len(After(msgs, n)) = Len(msgs) - n
        /\ \A i \in 1 .. Len(msgs) - n : After(msgs, n)[i] = msgs[n + i]
    BY <2>1, <2>2, AfterIs, Zenon
  <2>4. QED
    BY <1>10, <1>15, <2>3
<1>17. \A i \in 1..k : i \in 1 .. q - n /\ b[i].role = "tool" /\ b[i].call = r.input[i].call
  <2>1. n \in Nat /\ q \in Nat /\ k \in Nat /\ q - n >= k
    BY <1>11, <1>14
  <2>2. ASSUME NEW i \in 1..k
        PROVE  i \in 1 .. q - n /\ b[i].role = "tool" /\ b[i].call = r.input[i].call
    <3>1. i \in 1 .. q - n
      BY <2>1
    <3>2. b[i] = msgs[l + i]
      BY <1>14, <1>16, <3>1
    <3>3. msgs[l + i].role = "tool" /\ msgs[l + i].call = r.input[i].call
      BY <1>11
    <3>4. QED
      BY <3>1, <3>2, <3>3
  <2>3. QED
    BY <2>2
<1>18. k \in DOMAIN b /\ b[k].call = r.input[k].call /\ \A i \in 1..k : b[i].role = "tool"
  BY <1>11, <1>16, <1>17, LenProperties
<1>19. QED
  BY <1>12, <1>15, <1>18 DEF BeginsOf

FilledIn(s) == {s[i].call : i \in {i \in DOMAIN s : History!IsPlaceholder(s[i])}}

LEMMA FilledOccurs ==
    ASSUME NEW s, NEW c
    PROVE  c \in FilledIn(s) <=> \E x : Occurs(s, x) /\ History!IsPlaceholder(x) /\ x.call = c
BY DEF FilledIn, Occurs

(* A model of either family gets the same placeholders.                    *)
LEMMA AnthropicFilled ==
    ASSUME NEW t \in Seq(ChatMessage), NEW c
    PROVE  c \in FilledIn(Mapped(t, Anthropic)) <=> c \in FilledIn(t)
<1> DEFINE B == [i \in DOMAIN t |-> Anthropic[t[i]]]
           n == Len(t)
<1>1. n \in Nat /\ DOMAIN t = 1..n /\ \A i \in 1..n : t[i] \in ChatMessage
  BY LenProperties, ElementOfSeq
<1>2. \A m \in ChatMessage : Anthropic[m] \in Seq(Sendable)
  BY AnthropicTypes DEF Makes
<1>3. B \in [1..n -> Seq(Sendable)] /\ \A i \in 1..n : B[i] = Anthropic[t[i]]
  BY <1>1, <1>2
<1>4. Mapped(t, Anthropic) = FlattenSeq(B)
  BY DEF Mapped
<1> HIDE DEF B
<1>5. B \in Seq(Seq(Sendable)) /\ Len(B) = n
  BY <1>1, <1>3
<1>6. ASSUME NEW m \in ChatMessage
      PROVE  /\ \A k \in 1..Len(Anthropic[m]) :
                  /\ History!IsPlaceholder(Anthropic[m][k]) => History!IsPlaceholder(m)
                  /\ Anthropic[m][k].call = m.call
             /\ History!IsPlaceholder(m) =>
                  Len(Anthropic[m]) = 1 /\ History!IsPlaceholder(Anthropic[m][1])
  <2> DEFINE tool == History!Message("user", m.text, <<>>, m.call)
             other == History!Message(m.role, m.text, m.calls, NoId)
  <2>1. (m.role = "tool" <=> m.call # NoId)
    BY DEF ChatMessage
  <2>2. Anthropic[m] = IF m.role = "system" THEN <<>>
                       ELSE IF m.role = "tool" THEN <<tool>>
                       ELSE IF m.text = <<>> /\ m.calls = <<>> THEN <<>> ELSE <<other>>
    BY DEF Anthropic, History!convertMessageToAnthropic
  <2>3. tool.text = m.text /\ tool.call = m.call /\ other.call = NoId
    BY DEF History!Message
  <2> HIDE DEF tool, other
  <2>4. QED
    BY <2>1, <2>2, <2>3 DEF History!IsPlaceholder
<1>7. ASSUME c \in FilledIn(FlattenSeq(B)) PROVE c \in FilledIn(t)
  <2>1. PICK x : Occurs(FlattenSeq(B), x) /\ History!IsPlaceholder(x) /\ x.call = c
    BY <1>7, FilledOccurs
  <2>2. PICK i \in 1..n : \E k \in 1..Len(B[i]) : B[i][k] = x
    BY <1>5, <2>1, FlattenedOccurs
  <2>3. History!IsPlaceholder(t[i]) /\ t[i].call = c
    BY <1>1, <1>3, <1>6, <2>1, <2>2
  <2>4. QED
    BY <1>1, <2>2, <2>3 DEF FilledIn
<1>8. ASSUME c \in FilledIn(t) PROVE c \in FilledIn(FlattenSeq(B))
  <2>1. PICK i \in 1..n : History!IsPlaceholder(t[i]) /\ t[i].call = c
    BY <1>1, <1>8 DEF FilledIn
  <2>2. 1 \in 1..Len(B[i]) /\ History!IsPlaceholder(B[i][1]) /\ B[i][1].call = c
    BY <1>1, <1>3, <1>6, <2>1
  <2>3. Occurs(FlattenSeq(B), B[i][1])
    BY <1>5, <2>2, FlattenedOccurs
  <2>4. QED
    BY <2>2, <2>3, FilledOccurs
<1>9. QED
  BY <1>4, <1>7, <1>8

LEMMA PlaceholdersAre ==
    ASSUME NEW calls \in Seq(CallIds), NEW answered, NEW c
    PROVE  (\E x : Occurs(History!Placeholders(calls, answered), x) /\ x.call = c)
             <=> c \notin answered /\ \E k \in DOMAIN calls : calls[k] = c
<1> DEFINE B == [k \in DOMAIN calls |->
                   IF calls[k] \in answered THEN <<>> ELSE <<History!Placeholder(calls[k])>>]
           n == Len(calls)
<1>1. n \in Nat /\ DOMAIN calls = 1..n /\ \A k \in 1..n : calls[k] \in CallIds
  BY LenProperties, ElementOfSeq
<1>2. History!Placeholders(calls, answered) = FlattenSeq(B)
  BY HistoryFlattened DEF History!Placeholders, History!Mapped
<1>3. ASSUME NEW k \in 1..n
      PROVE  /\ B[k] \in Seq(Answers)
             /\ calls[k] \in answered => Len(B[k]) = 0
             /\ calls[k] \notin answered => Len(B[k]) = 1 /\ B[k][1].call = calls[k]
  <2>1. calls[k] \in CallIds /\ calls[k] # NoId
    BY <1>1, RequestPathAssumption
  <2>2. History!Placeholder(calls[k]) \in Answers /\ History!Placeholder(calls[k]).call = calls[k]
    BY <2>1 DEF History!Placeholder, History!Message, Answers, ChatMessage, Sendable, SpokenBy, SpokenTexts
  <2>3. B[k] = IF calls[k] \in answered THEN <<>> ELSE <<History!Placeholder(calls[k])>>
    BY <1>1
  <2> HIDE DEF B
  <2>4. QED
    BY <2>2, <2>3
<1>4. B \in [1..n -> Seq(Answers)]
  BY <1>1, <1>3
<1> HIDE DEF B
<1>5. B \in Seq(Seq(Answers)) /\ Len(B) = n
  BY <1>1, <1>4
<1>6. \A x : Occurs(FlattenSeq(B), x) <=> \E i \in 1..n : \E k \in 1..Len(B[i]) : B[i][k] = x
  BY <1>5, FlattenedOccurs
<1>7. ASSUME NEW x, Occurs(FlattenSeq(B), x), x.call = c
      PROVE  c \notin answered /\ \E k \in DOMAIN calls : calls[k] = c
  <2>1. PICK i \in 1..n : \E k \in 1..Len(B[i]) : B[i][k] = x
    BY <1>6, <1>7
  <2>2. QED
    BY <1>1, <1>3, <1>7, <2>1
<1>8. ASSUME c \notin answered, NEW k \in DOMAIN calls, calls[k] = c
      PROVE  \E x : Occurs(FlattenSeq(B), x) /\ x.call = c
  <2>1. 1 \in 1..Len(B[k]) /\ B[k][1].call = c
    BY <1>1, <1>3, <1>8
  <2>2. Occurs(FlattenSeq(B), B[k][1])
    BY <1>1, <1>6, <1>8, <2>1
  <2>3. QED
    BY <2>1, <2>2
<1>9. QED
  BY <1>2, <1>7, <1>8

(* Answering fills in, for every message, its calls that are not answered. *)
LEMMA CallsFilled ==
    ASSUME NEW s \in Seq(Genuine), NEW t, t = History!ensureToolCallsAnswered(s), NEW c
    PROVE  c \in FilledIn(t) <=>
             \E i \in DOMAIN s : /\ c \notin History!AnsweredAfter(s, i)
                                 /\ \E k \in DOMAIN s[i].calls : s[i].calls[k] = c
<1> DEFINE P(i) == History!Placeholders(s[i].calls, History!AnsweredAfter(s, i))
           B == [i \in DOMAIN s |-> Then(s[i], P(i))]
           n == Len(s)
<1>1. t = FlattenSeq(B)
  BY HistoryFlattened DEF History!ensureToolCallsAnswered, History!Answering, Then
<1>2. n \in Nat /\ DOMAIN s = 1..n /\ \A i \in 1..n : s[i] \in Genuine
  BY LenProperties, ElementOfSeq
<1>3. ASSUME NEW i \in 1..n
      PROVE  /\ s[i] \in ChatMessage /\ ~History!IsPlaceholder(s[i]) /\ s[i].calls \in Seq(CallIds)
             /\ P(i) \in Seq(Answers) /\ P(i) \in Seq(ChatMessage)
  <2>1. s[i] \in ChatMessage /\ ~History!IsPlaceholder(s[i]) /\ s[i].calls \in Seq(CallIds)
    BY <1>2 DEF Genuine, ChatMessage, Sendable
  <2>2. P(i) \in Seq(Answers)
    <3> DEFINE calls == s[i].calls
               answered == History!AnsweredAfter(s, i)
               p == P(i)
    <3>1. calls \in Seq(CallIds) /\ p = History!Placeholders(calls, answered)
      BY <2>1
    <3> HIDE DEF calls, answered, p
    <3>2. p \in Seq(Answers)
      BY <3>1, PlaceholdersGiven
    <3>3. QED
      BY <3>2 DEF p
  <2> HIDE DEF P
  <2>3. P(i) \in Seq(ChatMessage)
    BY <2>2 DEF Answers
  <2>4. QED
    BY <2>1, <2>2, <2>3
<1>4. ASSUME NEW i \in 1..n
      PROVE  (\E x : Occurs(P(i), x) /\ x.call = c) <=>
               c \notin History!AnsweredAfter(s, i) /\ \E k \in DOMAIN s[i].calls : s[i].calls[k] = c
  <2>1. s[i].calls \in Seq(CallIds)
    BY <1>3
  <2>2. QED
    BY <2>1, PlaceholdersAre
<1> HIDE DEF P
<1>5. ASSUME NEW i \in 1..n
      PROVE  /\ B[i] \in Seq(ChatMessage) /\ 1 \in 1..Len(B[i]) /\ B[i][1] = s[i]
             /\ \A q \in DOMAIN P(i) : q + 1 \in 1..Len(B[i]) /\ B[i][q + 1] = P(i)[q]
             /\ \A q \in 1..Len(B[i]) : q > 1 => \E r \in DOMAIN P(i) : B[i][q] = P(i)[r]
  <2> DEFINE b == Then(s[i], P(i))
  <2>1. B[i] = b
    BY <1>2
  <2>2. s[i] \in ChatMessage /\ P(i) \in Seq(ChatMessage)
    BY <1>3
  <2> HIDE DEF b, B
  <2>3. /\ b \in Seq(ChatMessage) /\ Len(b) = Len(P(i)) + 1 /\ b[1] = s[i]
        /\ \A q \in DOMAIN P(i) : q + 1 \in 1..Len(b) /\ q + 1 > 1 /\ b[q + 1] = P(i)[q]
        /\ \A q \in 1..Len(b) : q > 1 => \E r \in DOMAIN P(i) : b[q] = P(i)[r]
    <3>1. b = Then(s[i], P(i))
      BY DEF b
    <3> DEFINE m == s[i]
               p == P(i)
    <3>2. m \in ChatMessage /\ p \in Seq(ChatMessage) /\ b = Then(m, p)
      BY <2>2, <3>1
    <3> HIDE DEF m, p
    <3>3. /\ b \in Seq(ChatMessage) /\ Len(b) = Len(p) + 1 /\ b[1] = m
          /\ \A q \in DOMAIN p : q + 1 \in 1..Len(b) /\ q + 1 > 1 /\ b[q + 1] = p[q]
          /\ \A q \in 1..Len(b) : q > 1 => \E r \in DOMAIN p : b[q] = p[r]
      BY <3>2, Headed, Z3
    <3>4. QED
      BY <3>3 DEF m, p
  <2>4. Len(P(i)) \in Nat
    BY <2>2, LenProperties
  <2>5. QED
    BY <2>1, <2>3, <2>4
<1>6. B \in [DOMAIN s -> Seq(ChatMessage)]
  BY <1>2, <1>5
<1> HIDE DEF B
<1>7. B \in Seq(Seq(ChatMessage)) /\ Len(B) = n
  BY <1>6, SameLength
<1>8. \A x : Occurs(FlattenSeq(B), x) <=> \E i \in 1..n : \E k \in 1..Len(B[i]) : B[i][k] = x
  BY <1>7, FlattenedOccurs
<1>9. ASSUME c \in FilledIn(FlattenSeq(B))
      PROVE  \E i \in 1..n : \E x : Occurs(P(i), x) /\ x.call = c
  <2>1. PICK x : Occurs(FlattenSeq(B), x) /\ History!IsPlaceholder(x) /\ x.call = c
    BY <1>9, FilledOccurs
  <2>2. PICK i \in 1..n : \E k \in 1..Len(B[i]) : B[i][k] = x
    BY <1>8, <2>1
  <2>3. PICK k \in 1..Len(B[i]) : B[i][k] = x
    BY <2>2
  <2>4. Len(B[i]) \in Nat
    BY <1>5, LenProperties
  <2>5. k # 1
    BY <1>3, <1>5, <2>1, <2>3
  <2>6. k > 1
    BY <2>3, <2>4, <2>5
  <2>7. PICK r \in DOMAIN P(i) : B[i][k] = P(i)[r]
    BY <1>5, <2>6
  <2>8. Occurs(P(i), x) /\ x.call = c
    BY <2>1, <2>3, <2>7 DEF Occurs
  <2>9. QED
    BY <2>8
<1>10. ASSUME NEW i \in 1..n, NEW x, Occurs(P(i), x), x.call = c
       PROVE  c \in FilledIn(FlattenSeq(B))
  <2>1. PICK q \in DOMAIN P(i) : P(i)[q] = x
    BY <1>10 DEF Occurs
  <2>2. q + 1 \in 1..Len(B[i]) /\ B[i][q + 1] = x
    BY <1>5, <2>1
  <2>3. Occurs(FlattenSeq(B), x)
    BY <1>8, <2>2
  <2>4. History!IsPlaceholder(x)
    <3>1. P(i)[q] \in Answers
      BY <1>3, ElementOfSeq, LenProperties
    <3>2. QED
      BY <2>1, <3>1 DEF Answers, History!IsPlaceholder
  <2>5. QED
    BY <1>10, <2>3, <2>4, FilledOccurs
<1>11. QED
  BY <1>1, <1>2, <1>4, <1>9, <1>10

(* A call is made in a message of its own, and an id is given to one.      *)
OneCallEach(said) == \A j \in DOMAIN said : said[j].calls = <<>> \/ \E x : said[j].calls = <<x>>
CallsApart(said) ==
    \A j, l \in DOMAIN said :
      said[j].calls # <<>> /\ said[j].calls = said[l].calls => j = l
ItemsApart(items) ==
    \A i, j \in DOMAIN items : i # j /\ items[i] = items[j] => items[i].call = NoId

LEMMA SaidApart ==
    ASSUME NEW items \in Seq(History!OutputItem), ItemsApart(items)
    PROVE  OneCallEach(SaidIn(items)) /\ CallsApart(SaidIn(items))
<1> DEFINE S == History!OutputItem
           B == [i \in DOMAIN items |->
                   IF items[i].type # "function_call" \/ items[i].call # NoId
                     THEN <<items[i]>> ELSE <<>>]
           K == Known(items)
           n == Len(items)
<1>1. n \in Nat /\ DOMAIN items = 1..n /\ \A i \in 1..n : items[i] \in S
  BY LenProperties, ElementOfSeq
<1>2. K = FlattenSeq(B)
  BY HistoryFlattened DEF Known
<1>3. ASSUME NEW i \in 1..n
      PROVE  B[i] \in Seq(S) /\ \A k \in 1..Len(B[i]) : k = 1 /\ B[i][k] = items[i]
  <2> DEFINE b == B[i]
             m == items[i]
  <2>1. m \in S /\ (b = <<m>> \/ b = <<>>)
    BY <1>1
  <2> HIDE DEF b, m, B, S
  <2>2. <<m>> \in Seq(S) /\ Len(<<m>>) = 1 /\ <<m>>[1] = m /\ <<>> \in Seq(S)
    BY <2>1
  <2>3. \A k \in 1..1 : k = 1
    OBVIOUS
  <2>4. b = <<m>> => b \in Seq(S) /\ \A k \in 1..Len(b) : k = 1 /\ b[k] = m
    BY <2>2, <2>3
  <2>5. b = <<>> => b \in Seq(S) /\ \A k \in 1..Len(b) : k = 1 /\ b[k] = m
    BY <2>2
  <2>6. b \in Seq(S) /\ \A k \in 1..Len(b) : k = 1 /\ b[k] = m
    BY <2>1, <2>4, <2>5
  <2>7. QED
    BY <2>6 DEF b, m
<1>4. B \in [1..n -> Seq(S)]
  BY <1>1, <1>3
<1> HIDE DEF B, K, S
<1>5. B \in Seq(Seq(S)) /\ Len(B) = n
  BY <1>1, <1>4
<1>6. PICK off : InPlace(K, B, off)
  BY <1>2, <1>5, FlattenedInPlace
<1>7. ASSUME NEW p \in DOMAIN K
      PROVE  \E i \in 1..n : p = Place(off, i, 1) /\ K[p] = items[i]
  <2>1. PICK i \in 1..n : \E k \in 1..Len(B[i]) : p = Place(off, i, k)
    BY <1>5, <1>6, <1>7 DEF InPlace
  <2>2. PICK k \in 1..Len(B[i]) : p = Place(off, i, k)
    BY <2>1
  <2>3. k = 1 /\ B[i][k] = items[i]
    BY <1>3
  <2>4. K[p] = B[i][k]
    BY <1>5, <1>6, <2>2 DEF InPlace
  <2>5. QED
    BY <2>2, <2>3, <2>4
<1>8. DOMAIN SaidIn(items) = DOMAIN K /\ \A p \in DOMAIN K : SaidIn(items)[p] = SaidAs(K[p])
  BY DEF SaidIn, K
<1>9. \A o : SaidAs(o).calls = IF o.call = NoId THEN <<>> ELSE <<o.call>>
  BY DEF SaidAs, History!Message
<1>10. OneCallEach(SaidIn(items))
  <2>1. ASSUME NEW p \in DOMAIN K
        PROVE  SaidIn(items)[p].calls = <<>> \/ \E x : SaidIn(items)[p].calls = <<x>>
    <3>1. PICK o : o = K[p]
      OBVIOUS
    <3>2. SaidAs(o).calls = <<>> \/ SaidAs(o).calls = <<o.call>>
      BY <1>9
    <3>3. SaidIn(items)[p] = SaidAs(o)
      BY <1>8, <3>1
    <3>4. QED
      BY <3>2, <3>3, Zenon
  <2>2. QED
    BY <1>8, <2>1 DEF OneCallEach
<1>11. ASSUME NEW o \in S, NEW q \in S, SaidAs(o).calls # <<>>, SaidAs(o).calls = SaidAs(q).calls
       PROVE  o = q
  <2>1. PICK c, d : c = o.call /\ d = q.call
    OBVIOUS
  <2>2. /\ SaidAs(o).calls = IF c = NoId THEN <<>> ELSE <<c>>
        /\ SaidAs(q).calls = IF d = NoId THEN <<>> ELSE <<d>>
    BY <1>9, <2>1
  <2>3. <<d>> # <<>> /\ (<<c>> = <<d>> => c = d)
    OBVIOUS
  <2>4. o.call # NoId /\ q.call # NoId /\ o.call = q.call
    BY <1>11, <2>1, <2>2, <2>3
  <2>5. \A m \in S : m.call # NoId => m = [type |-> "function_call", text |-> <<>>, call |-> m.call]
    BY DEF S, History!OutputItem
  <2>6. QED
    BY <2>4, <2>5
<1>12. ASSUME NEW j \in DOMAIN K, NEW l \in DOMAIN K, SaidAs(K[j]).calls # <<>>,
              SaidAs(K[j]).calls = SaidAs(K[l]).calls
       PROVE  j = l
  <2>1. PICK i \in 1..n : j = Place(off, i, 1) /\ K[j] = items[i]
    BY <1>7
  <2>2. PICK h \in 1..n : l = Place(off, h, 1) /\ K[l] = items[h]
    BY <1>7
  <2>3. items[i] = items[h]
    BY <1>1, <1>11, <1>12, <2>1, <2>2
  <2>4. i = h
    <3>1. items[i].call # NoId
      BY <1>1, <1>9, <1>12, <2>1
    <3>2. QED
      BY <1>1, <2>3, <3>1 DEF ItemsApart
  <2>5. QED
    BY <2>1, <2>2, <2>4
<1>13. QED
  BY <1>8, <1>10, <1>12 DEF CallsApart

(* The last call of an answer is not filled in if the input's first        *)
(* results answer it.                                                      *)
LastMade(said) ==
    IF said = <<>> THEN {}
    ELSE {said[Len(said)].calls[k] : k \in DOMAIN said[Len(said)].calls}

LEMMA LastIsAnswered ==
    ASSUME NEW msgs \in Seq(Plain), NEW said \in Seq(Replies), OneCallEach(said), CallsApart(said),
           NEW t, t = History!ensureToolCallsAnswered(AllOf(msgs, said)),
           NEW c, c \in LastMade(said), c \in BeginsOf(After(msgs, History!SystemLen(msgs)))
    PROVE  c \notin FilledIn(t)
<1>0. said # <<>> /\ c \in {said[Len(said)].calls[k] : k \in DOMAIN said[Len(said)].calls}
  BY DEF LastMade
<1>1. PICK n : n = History!SystemLen(msgs)
  OBVIOUS
<1>2. PICK f, b, s : f = UpTo(msgs, n) /\ b = After(msgs, n) /\ s = AllOf(msgs, said)
  OBVIOUS
<1>3. n \in 0..Len(msgs)
  BY <1>1, SystemLenIs
<1>4. f \in Seq(Plain) /\ b \in Seq(Plain)
  BY <1>2, <1>3, UpToIs, AfterIs
<1>5. s = Cat(Cat(f, said), b)
  BY <1>1, <1>2 DEF AllOf, Cat, UpTo, After
<1>6. s \in Seq(Genuine)
  BY <1>2, AllIsGenuine
<1>7. f \in Seq(Genuine) /\ b \in Seq(Genuine) /\ said \in Seq(Genuine)
  <2>1. Plain \subseteq Genuine /\ Replies \subseteq Genuine
    BY DEF Plain, Replies, Genuine, History!IsPlaceholder
  <2>2. QED
    BY <1>4, <2>1
<1>8. PICK F, L, R : F = Len(f) /\ L = Len(said) /\ R = Len(b)
  OBVIOUS
<1>9. F \in Nat /\ L \in Nat /\ L > 0 /\ R \in Nat /\ DOMAIN said = 1..L /\ DOMAIN b = 1..R
  BY <1>0, <1>4, <1>8, LenProperties, EmptySeq
<1>10. /\ Len(s) = F + L + R /\ DOMAIN s = 1 .. F + L + R
       /\ \A i \in 1..F : s[i] = f[i]
       /\ \A i \in 1..L : s[F + i] = said[i]
       /\ \A i \in 1..R : s[F + L + i] = b[i]
  <2>1. /\ Len(s) = Len(f) + Len(said) + Len(b)
        /\ \A i \in 1..Len(f) : s[i] = f[i]
        /\ \A i \in 1..Len(said) : s[Len(f) + i] = said[i]
        /\ \A i \in 1..Len(b) : s[Len(f) + Len(said) + i] = b[i]
    <3>1. ThreeParts(s, f, said, b)
      BY <1>5, <1>7, AllInPlace
    <3>2. QED
      BY <3>1 DEF ThreeParts
  <2>2. DOMAIN s = 1..Len(s)
    BY <1>6, LenProperties
  <2>3. QED
    BY <1>8, <2>1, <2>2
<1>11. \A i \in 1..F : f[i].calls = <<>>
  BY <1>4, <1>8, ElementOfSeq DEF Plain
<1>12. \A i \in 1..R : b[i].calls = <<>>
  BY <1>4, <1>8, ElementOfSeq DEF Plain
<1>14. ASSUME NEW i \in DOMAIN s, s[i].calls # <<>>
       PROVE  \E j \in 1..L : i = F + j /\ s[i] = said[j]
  <2>1. ~(i \in 1..F)
    BY <1>10, <1>11, <1>14
  <2>2. ASSUME i > F + L PROVE FALSE
    <3>1. i - (F + L) \in 1..R /\ F + L + (i - (F + L)) = i
      BY <1>9, <1>10, <2>2
    <3>2. QED
      BY <1>10, <1>12, <1>14, <3>1
  <2>3. i - F \in 1..L /\ F + (i - F) = i
    BY <1>9, <1>10, <2>1, <2>2
  <2>4. QED
    BY <1>10, <2>3
<1>16. c \in History!AnsweredAfter(s, F + L)
  <2>1. PICK p \in 1..R : b[p].call = c /\ \A k \in 1..p : b[k].role = "tool"
    BY <1>1, <1>2, <1>9 DEF BeginsOf
  <2>2. F + L + p \in F + L + 1 .. Len(s)
    BY <1>9, <1>10
  <2>3. s[F + L + p].call = c
    BY <1>10, <2>1
  <2>4. ASSUME NEW k \in F + L + 1 .. F + L + p PROVE s[k].role = "tool"
    <3>1. k - (F + L) \in 1..p /\ k - (F + L) \in 1..R /\ F + L + (k - (F + L)) = k
      BY <1>9
    <3>2. s[k] = b[k - (F + L)]
      BY <1>10, <3>1
    <3>3. QED
      BY <2>1, <3>1, <3>2
  <2>5. QED
    BY <2>2, <2>3, <2>4 DEF History!AnsweredAfter
<1>17. c \in FilledIn(t) <=>
         \E i \in DOMAIN s : /\ c \notin History!AnsweredAfter(s, i)
                             /\ \E k \in DOMAIN s[i].calls : s[i].calls[k] = c
  BY <1>2, <1>6, CallsFilled
<1>18. \A j \in 1..L : said[j].calls = <<>> \/ \E x : said[j].calls = <<x>>
  BY <1>9 DEF OneCallEach
<1>19. \A j \in 1..L : (\E k \in DOMAIN said[j].calls : said[j].calls[k] = c) <=> said[j].calls = <<c>>
  <2>1. ASSUME NEW j \in 1..L
        PROVE  (\E k \in DOMAIN said[j].calls : said[j].calls[k] = c) <=> said[j].calls = <<c>>
    <3>1. PICK calls : calls = said[j].calls
      OBVIOUS
    <3>2. calls = <<>> \/ \E x : calls = <<x>>
      BY <1>18, <3>1
    <3>3. (\E k \in DOMAIN calls : calls[k] = c) <=> calls = <<c>>
      BY <3>2
    <3>4. QED
      BY <3>1, <3>3
  <2>2. QED
    BY <2>1
<1>20. said[L].calls = <<c>>
  <2>1. \E k \in DOMAIN said[L].calls : said[L].calls[k] = c
    BY <1>0, <1>8 DEF LastMade
  <2>2. L \in 1..L
    BY <1>9
  <2>3. QED
    BY <1>19, <2>1, <2>2
<1>21. ASSUME NEW i \in DOMAIN s, NEW k \in DOMAIN s[i].calls, s[i].calls[k] = c,
              c \notin History!AnsweredAfter(s, i)
       PROVE  FALSE
  <2>1. s[i].calls # <<>>
    BY <1>21
  <2>2. PICK j \in 1..L : i = F + j /\ s[i] = said[j]
    BY <1>14, <2>1
  <2>3. said[j].calls = <<c>>
    BY <1>19, <1>21, <2>2
  <2>4. j = L
    <3>1. said[j].calls # <<>> /\ said[j].calls = said[L].calls /\ L \in DOMAIN said /\ j \in DOMAIN said
      BY <1>9, <1>20, <2>3
    <3>2. QED
      BY <3>1 DEF CallsApart
  <2>5. QED
    BY <1>16, <1>21, <2>2, <2>4
<1>22. QED
  BY <1>17, <1>21

LEMMA HistoryRuns == Spec => History!Init /\ [][History!Next]_historyVars
<1>1. Init => History!Init
  BY DEF Init
<1>2. [Next]_vars => [History!Next]_historyVars
  BY DEF Next, vars
<1>3. QED
  BY <1>1, <1>2, PTL DEF Spec

(* Where a message of the input stands and which call was the last.        *)
AtOnce(r, c) ==
    \E k \in DOMAIN r.input :
      r.input[k].call = c /\ \A i \in 1..k : r.input[i].role = "tool"
LastFilled ==
    sent.status = "sent" =>
      \A c \in LastMade(SaidBefore) : AtOnce(asked, c) => c \notin FilledIn(sent.messages)

LEMMA LastTold == LastFilled => LastCallNotDoubled
<1>1. SUFFICES ASSUME LastFilled, sent.status = "sent", SaidBefore # <<>>,
                      NEW c \in History!ToSet(SaidBefore[Len(SaidBefore)].calls),
                      NEW n \in DOMAIN asked.input, asked.input[n].call = c,
                      \A i \in 1..n : asked.input[i].role = "tool",
                      NEW i \in DOMAIN sent.messages, sent.messages[i].call = c
               PROVE  ~History!IsPlaceholder(sent.messages[i])
  BY SaidIsBefore DEF LastCallNotDoubled, History!LastCallNotDoubled, History!Sent
<1>2. c \in LastMade(SaidBefore)
  BY <1>1 DEF LastMade, History!ToSet
<1>3. AtOnce(asked, c)
  BY <1>1 DEF AtOnce
<1>4. QED
  BY <1>1, <1>2, <1>3 DEF LastFilled, FilledIn

(* What is stored, and what has been made of it and of the input.          *)
Replayed ==
    /\ stored \in Seq(History!OutputItem)
    /\ ItemsApart(stored)
    /\ family \in {"openai", "anthropic"}
    /\ sent.status = "sent" => AnsweredAtOnce(sent.messages)
    /\ HistoryFirst
    /\ LastFilled

LEMMA ReplayedFirst == History!Init => Replayed
<1>1. <<>> \in Seq(History!OutputItem) /\ ItemsApart(<<>>)
  BY EmptySeq DEF ItemsApart
<1>2. QED
  BY <1>1 DEF History!Init, History!Unsent, Replayed, HistoryFirst, LastFilled

(* A chat with the items it continues: what the upstream gets of it.       *)
LEMMA ChatReplays ==
    ASSUME NEW r, r.instructions \in BOOLEAN, r.input \in Seq(History!Items), r.continues \in BOOLEAN,
           NEW items \in Seq(History!OutputItem), ItemsApart(items),
           NEW said, said = IF ~r.continues THEN <<>> ELSE SaidIn(items),
           NEW history, history = IF r.continues THEN History!stateToHistory(items) ELSE <<>>,
           NEW msgs, msgs = History!ToChatRequest(r),
           NEW chat, chat = History!MergeHistory(msgs, history)
    PROVE  /\ chat \in Seq(ChatMessage) /\ AnsweredAtOnce(chat)
           /\ Mapped(chat, TellChat) = Mapped(Cat(said, msgs), TellChat)
           /\ Cat(said, msgs) \in Seq(ChatMessage)
           /\ r.instructions => chat[1] = Lead
           /\ \A c \in LastMade(said) : AtOnce(r, c) => c \notin FilledIn(chat)
<1>1. msgs \in Seq(Plain) /\ (r.instructions => Len(msgs) > 0 /\ msgs[1] = Lead)
  BY InputMakesNoCalls
<1>2. msgs \in Seq(Plain)
  BY InputMakesNoCalls
<1>3. said = history /\ said \in Seq(Replies) /\ OneCallEach(said) /\ CallsApart(said)
  <2>1. CASE r.continues
    BY <2>1, SaidIsHistory, SaidApart
  <2>2. CASE ~r.continues
    BY <2>2, EmptySeq DEF OneCallEach, CallsApart
  <2>3. QED
    BY <2>1, <2>2
<1>4. history \in Seq(ChatMessage)
  BY <1>3 DEF Replies
<1>5. chat \in Seq(ChatMessage) /\ AnsweredAtOnce(chat)
  BY <1>2, <1>4, MergedIsAnswered
<1>6. PICK all : all = AllOf(msgs, said)
  OBVIOUS
<1>7. all \in Seq(Genuine)
  BY <1>2, <1>3, <1>6, AllIsGenuine
<1>8. \/ said = <<>> /\ chat = all
      \/ said # <<>> /\ chat = History!ensureToolCallsAnswered(all)
  BY <1>2, <1>3, <1>6, MergedIs
<1>9. Mapped(chat, TellChat) = Mapped(all, TellChat)
  BY <1>7, <1>8, AnsweringTellsAll
<1>10. /\ Mapped(all, TellChat) = Mapped(Cat(said, msgs), TellChat)
       /\ Cat(said, msgs) \in Seq(ChatMessage)
  BY <1>2, <1>3, <1>6, AllIsTold
<1>11. r.instructions => chat[1] = Lead
  BY <1>1, <1>2, <1>3, <1>6, <1>8, LeadIsFirst
<1>12. ASSUME NEW c \in LastMade(said), AtOnce(r, c) PROVE c \notin FilledIn(chat)
  <2>1. chat = History!ensureToolCallsAnswered(AllOf(msgs, said))
    BY <1>6, <1>8, <1>12 DEF LastMade
  <2>2. PICK k \in DOMAIN r.input : r.input[k].call = c /\ \A i \in 1..k : r.input[i].role = "tool"
    BY <1>12 DEF AtOnce
  <2>3. c \in BeginsOf(After(msgs, History!SystemLen(msgs)))
    BY <2>2, ResultsBegin
  <2>4. QED
    BY <1>2, <1>3, <1>12, <2>1, <2>3, LastIsAnswered
<1>13. QED
  BY <1>5, <1>9, <1>10, <1>11, <1>12

LEMMA AskReplays ==
    ASSUME Replayed, NEW r, r.instructions \in BOOLEAN, r.input \in Seq(History!Items),
           r.continues \in BOOLEAN, History!Ask(r)
    PROVE  Replayed'
<1>1. PICK msgs, items, history, said, chat :
        /\ msgs = History!ToChatRequest(r) /\ items = stored
        /\ history = (IF r.continues THEN History!stateToHistory(items) ELSE <<>>)
        /\ said = (IF ~r.continues THEN <<>> ELSE SaidIn(items))
        /\ chat = History!MergeHistory(msgs, history)
  OBVIOUS
<1>2. sent' = IF family = "anthropic" THEN History!ToAnthropicRequest(chat, r.instructions)
              ELSE History!ToOpenAIChatRequest(chat)
  BY <1>1 DEF History!Ask
<1>3. /\ stored' = stored /\ family' = family /\ items = stored
      /\ sent'.status = "sent" => asked' = r
  BY <1>1 DEF History!Ask
<1>4. items \in Seq(History!OutputItem) /\ ItemsApart(items) /\ family \in {"openai", "anthropic"}
  BY <1>1 DEF Replayed
<1>5. /\ chat \in Seq(ChatMessage) /\ AnsweredAtOnce(chat)
      /\ Mapped(chat, TellChat) = Mapped(Cat(said, msgs), TellChat)
      /\ Cat(said, msgs) \in Seq(ChatMessage)
      /\ r.instructions => chat[1] = Lead
      /\ \A c \in LastMade(said) : AtOnce(r, c) => c \notin FilledIn(chat)
  BY <1>1, <1>4, ChatReplays
<1>6. PICK q : q = sent'
  OBVIOUS
<1>7. ASSUME q.status = "sent"
      PROVE  /\ AnsweredAtOnce(q.messages)
             /\ History!Told(q.messages) = Mapped(chat, TellChat)
             /\ r.instructions => q.system \/ q.messages[1] = Lead
             /\ \A c : c \in FilledIn(q.messages) <=> c \in FilledIn(chat)
  <2>1. CASE family = "openai"
    <3>1. q = History!ToOpenAIChatRequest(chat)
      BY <1>2, <1>6, <2>1
    <3>2. q.messages = chat
      BY <1>5, <3>1, OpenAISends
    <3>3. QED
      BY <1>5, <3>2, ToldOfChat
  <2>2. CASE family = "anthropic"
    <3>1. q = History!ToAnthropicRequest(chat, r.instructions)
      BY <1>2, <1>6, <2>2
    <3>2. AnsweredAtOnce(q.messages)
      BY <1>5, <1>7, <3>1, AnthropicIsAnswered
    <3>3. q.messages = Mapped(chat, Anthropic) /\ q.system = r.instructions
      BY <1>5, <1>7, <3>1, AnthropicSends
    <3>4. \A c : c \in FilledIn(Mapped(chat, Anthropic)) <=> c \in FilledIn(chat)
      BY <1>5, AnthropicFilled
    <3>5. History!Told(Mapped(chat, Anthropic)) = Mapped(chat, TellChat)
      BY <1>5, ToldOfChat
    <3>6. QED
      BY <3>2, <3>3, <3>4, <3>5
  <2>3. QED
    BY <1>4, <2>1, <2>2
<1>8. CASE q.status = "sent"
  <2>1. asked' = r /\ stored' = items /\ sent' = q /\ family' = family
    BY <1>3, <1>6, <1>8
  <2>2. SaidBefore' = said
    BY <1>1, <2>1 DEF SaidBefore
  <2>3. /\ History!Told(q.messages) = History!Told(Cat(said, msgs))
        /\ History!Told(q.messages) \in Seq(Tags)
    BY <1>5, <1>7, <1>8, ToldOfChat
  <2>4. HistoryFirst'
    BY <1>1, <1>7, <1>8, <2>1, <2>2, <2>3 DEF HistoryFirst, ToldInOrder
  <2>5. LastFilled'
    BY <1>5, <1>7, <1>8, <2>1, <2>2 DEF LastFilled
  <2>6. QED
    BY <1>4, <1>7, <1>8, <2>1, <2>4, <2>5 DEF Replayed
<1>9. CASE q.status # "sent"
  BY <1>3, <1>4, <1>6, <1>9 DEF Replayed, HistoryFirst, LastFilled
<1>10. QED
  BY <1>8, <1>9

LEMMA AnswerReplays ==
    ASSUME Replayed, NEW streamed, NEW output \in History!Outputs(streamed),
           History!Answer(streamed, output)
    PROVE  Replayed'
<1>1. output \in Seq(History!OutputItem) /\ ItemsApart(output)
  BY DEF History!Outputs, History!SeqOf, ItemsApart
<1>2. sent'.status = "none" /\ stored' \in {stored, output} /\ family' = family
  BY DEF History!Answer, History!Unsent
<1>3. QED
  BY <1>1, <1>2 DEF Replayed, HistoryFirst, LastFilled

LEMMA ReplayedStep == Replayed /\ [History!Next]_historyVars => Replayed'
<1>1. SUFFICES ASSUME Replayed, [History!Next]_historyVars PROVE Replayed'
  OBVIOUS
<1>2. CASE UNCHANGED historyVars
  BY <1>1, <1>2 DEF Replayed, historyVars, HistoryFirst, SaidBefore, LastFilled
<1>3. CASE \E instructions, continues \in BOOLEAN, n \in 1..MaxItems :
             \E input \in [1..n -> History!Items] :
               History!Ask([instructions |-> instructions, input |-> input, continues |-> continues])
  <2>1. PICK instructions \in BOOLEAN, continues \in BOOLEAN, n \in 1..MaxItems :
          \E input \in [1..n -> History!Items] :
            History!Ask([instructions |-> instructions, input |-> input, continues |-> continues])
    BY <1>3
  <2>2. PICK input \in [1..n -> History!Items] :
          History!Ask([instructions |-> instructions, input |-> input, continues |-> continues])
    BY <2>1
  <2> DEFINE r == [instructions |-> instructions, input |-> input, continues |-> continues]
  <2>3. /\ r.instructions \in BOOLEAN /\ r.continues \in BOOLEAN /\ r.input \in Seq(History!Items)
        /\ History!Ask(r)
    BY <2>2
  <2> HIDE DEF r
  <2>4. QED
    BY <1>1, <2>3, AskReplays
<1>4. CASE \E streamed \in BOOLEAN :
             \E output \in History!Outputs(streamed) : History!Answer(streamed, output)
  BY <1>1, <1>4, AnswerReplays
<1>5. QED
  BY <1>1, <1>2, <1>3, <1>4 DEF History!Next

LEMMA ReplayedAlways == Spec => []Replayed
BY ReplayedFirst, ReplayedStep, HistoryRuns, PTL

(* HistoryReplay: every call is answered in the messages right behind it,  *)
(* whatever answer was stored and whatever results the client sent.        *)
THEOREM CallsAlwaysAnswered == Spec => []CallsAnsweredAtOnce
<1>1. Replayed => CallsAnsweredAtOnce
  BY DEF Replayed, CallsAnsweredAtOnce, History!CallsAnsweredAtOnce, History!Sent, AnsweredAtOnce, AnsweredBy
<1>2. QED
  BY <1>1, ReplayedAlways, PTL

(* HistoryReplay: MergeHistory and the conversions for both families give  *)
(* the upstream the whole previous answer and, behind it, the whole input, *)
(* each in its order and with whoever said it; placeholders displace       *)
(* nothing, and the instructions go along.                                 *)
THEOREM HistoryAlwaysFirst == Spec => []HistoryThenInput
<1>1. Replayed => HistoryThenInput
  BY HistoryTold DEF Replayed
<1>2. QED
  BY <1>1, ReplayedAlways, PTL

(* HistoryReplay: if an answer ended with a call and the next input begins *)
(* with its result, ensureToolCallsAnswered finds it whatever the other    *)
(* results are, and puts no placeholder for it.                            *)
THEOREM LastCallNeverDoubled == Spec => []LastCallNotDoubled
<1>1. Replayed => LastCallNotDoubled
  BY LastTold DEF Replayed
<1>2. QED
  BY <1>1, ReplayedAlways, PTL

----------------------------------------------------------------------------
LEMMA OutputsGiven ==
    ASSUME NEW streamed, NEW output \in History!Outputs(streamed)
    PROVE  output \in Seq(History!OutputItem) /\ ItemsApart(output) /\ Len(output) <= MaxOutputs
<1>1. PICK n \in 0..MaxOutputs : output \in [1..n -> History!OutputItem]
  BY DEF History!Outputs, History!SeqOf
<1>2. output \in Seq(History!OutputItem) /\ Len(output) = n /\ n <= MaxOutputs
  BY <1>1, RequestPathAssumption
<1>3. ItemsApart(output)
  BY DEF History!Outputs, ItemsApart
<1>4. QED
  BY <1>2, <1>3

Askable == [instructions: BOOLEAN, input: Seq(History!Items), continues: BOOLEAN]

(* HistoryReplay: every variable keeps its type, and only a request of an  *)
(* Anthropic model is refused.                                             *)
THEOREM HistoryAlwaysTyped == Spec => []History!TypeOK
<1>0. MaxAnswers \in Nat /\ MaxOutputs \in Nat
  BY RequestPathAssumption
<1>1. History!Init => History!TypeOK
  <2>1. SUFFICES ASSUME History!Init PROVE History!TypeOK
    OBVIOUS
  <2>2. asked = History!Nothing /\ sent = History!Unsent /\ stored = <<>>
    BY <2>1 DEF History!Init
  <2>3. asked \in Askable /\ DOMAIN stored = {} /\ Len(stored) = 0 /\ sent.status = "none"
    BY <2>2, EmptySeq DEF History!Nothing, History!Unsent, Askable
  <2>4. QED
    BY <1>0, <2>1, <2>2, <2>3 DEF History!Init, History!TypeOK, Askable
<1>2. History!TypeOK /\ [History!Next]_historyVars => History!TypeOK'
  <2> SUFFICES ASSUME History!TypeOK, [History!Next]_historyVars PROVE History!TypeOK'
    OBVIOUS
  <2>1. ASSUME NEW r, r.input # <<>>, r \in Askable, History!Ask(r)
        PROVE  History!TypeOK'
    <3>1. UNCHANGED <<family, turn, stored>>
      BY <2>1 DEF History!Ask
    <3>2. PICK chat : sent' = IF family = "anthropic"
                                THEN History!ToAnthropicRequest(chat, r.instructions)
                                ELSE History!ToOpenAIChatRequest(chat)
      BY <2>1 DEF History!Ask
    <3>3. /\ sent'.status \in {"sent", "refused"}
          /\ sent'.status = "refused" => family = "anthropic" /\ sent'.messages = <<>>
      BY <3>2 DEF History!ToAnthropicRequest, History!ToOpenAIChatRequest, History!Unsent
    <3>4. asked' = IF sent'.status = "sent" THEN r ELSE History!Nothing
      BY <2>1 DEF History!Ask
    <3>5. r # History!Nothing /\ History!Nothing \in Askable
      BY <2>1, EmptySeq DEF History!Nothing, Askable
    <3>6. /\ asked' \in Askable
          /\ sent'.status = "sent" <=> asked' # History!Nothing
      BY <2>1, <3>3, <3>4, <3>5
    <3>7. QED
      BY <3>1, <3>3, <3>6 DEF History!TypeOK, Askable
  <2>2. ASSUME NEW streamed, NEW output \in History!Outputs(streamed),
               turn < MaxAnswers, History!Answer(streamed, output)
        PROVE  History!TypeOK'
    <3>1. (\A i \in DOMAIN output : output[i] \in History!OutputItem) /\ Len(output) <= MaxOutputs
      BY OutputsGiven, ElementOfSeq, LenProperties
    <3>2. /\ turn' \in {turn, turn + 1} /\ stored' \in {stored, output}
          /\ asked' = History!Nothing /\ sent' = History!Unsent /\ family' = family
      BY <2>2 DEF History!Answer
    <3>3. asked' \in Askable /\ sent'.status = "none"
      BY <3>2, EmptySeq DEF History!Nothing, History!Unsent, Askable
    <3>4. turn' \in 0..MaxAnswers
      BY <1>0, <2>2, <3>2 DEF History!TypeOK
    <3>5. (\A i \in DOMAIN stored' : stored'[i] \in History!OutputItem) /\ Len(stored') <= MaxOutputs
      BY <3>1, <3>2 DEF History!TypeOK
    <3>6. QED
      BY <3>2, <3>3, <3>4, <3>5 DEF History!TypeOK, Askable
  <2>3. CASE UNCHANGED historyVars
    BY <2>3 DEF historyVars, History!TypeOK
  <2>4. ASSUME NEW instructions \in BOOLEAN, NEW continues \in BOOLEAN, NEW n \in 1..MaxItems,
               NEW input \in [1..n -> History!Items],
               History!Ask([instructions |-> instructions, input |-> input, continues |-> continues])
        PROVE  History!TypeOK'
    <3> DEFINE r == [instructions |-> instructions, input |-> input, continues |-> continues]
    <3>1. input # <<>>
      <4>1. 1 \in DOMAIN input /\ DOMAIN <<>> = {}
        BY RequestPathAssumption, EmptySeq
      <4>2. QED
        BY <4>1
    <3>2. r.input # <<>> /\ r \in Askable
      <4>1. input \in Seq(History!Items)
        OBVIOUS
      <4>2. QED
        BY <3>1, <4>1 DEF Askable
    <3>3. History!Ask(r)
      BY <2>4
    <3> HIDE DEF r
    <3>4. QED
      BY <2>1, <3>2, <3>3
  <2>5. QED
    BY <2>2, <2>3, <2>4 DEF History!Next
<1>3. QED
  BY <1>1, <1>2, HistoryRuns, PTL
==============================================================================
