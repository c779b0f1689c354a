----------------------------- MODULE ReplyStream -----------------------------
(***************************************************************************)
(* A streamed reply from the network to the sentences the pet speaks:      *)
(* LlmClient cuts the answer into lines whatever pieces it arrives in      *)
(* (src/src/llm/llm_client.cpp), AgentRuntime passes the text on, and      *)
(* StreamSentenceSplitter cuts it into sentences.                          *)
(*                                                                         *)
(* An event line arrives in three pieces: <<"head", text>>, which is not   *)
(* yet an event, <<"tail", text>>, with which it is one, and the newline   *)
(* that ends it.  A text is a sequence of words, blanks, newlines, strong  *)
(* and soft delimiters.                                                    *)
(***************************************************************************)
EXTENDS Integers, Sequences, SequencesExt

CONSTANTS MinStrong,    \* MIN_STRONG_SENTENCE_LENGTH
          FirstSoft,    \* FIRST_SOFT_SPLIT_LENGTH
          LaterSoft,    \* LATER_SOFT_SPLIT_LENGTH
          MaxBuffer,    \* MAX_BUFFER_LENGTH
          Delta,        \* the texts an event may bring
          MaxText       \* bound on the text of the reply

VARIABLES
  sent,     \* the text of the events the server has sent completely
  line,     \* the last piece of the line it is in the middle of, or none
  unread,   \* pieces that have arrived and were not read
  client,   \* m_streamBuffers and m_accumulatedTexts
  splitter, \* m_buffers, m_sentenceCounters and the sentences it has emitted
  phase     \* of the request: streaming, or its end

vars == <<sent, line, unread, client, splitter, phase>>

Space == {"blank", "newline"}
Strong == {"strong", "newline"}
Char == Space \union Strong \union {"word", "soft"}

Init ==
  /\ sent = <<>> /\ line = <<>> /\ unread = <<>>
  /\ client = [buffer |-> <<>>, text |-> <<>>]
  /\ splitter = [buffer |-> <<>>, count |-> 0, out |-> <<>>]
  /\ phase = "streaming"

-----------------------------------------------------------------------------
(* StreamSentenceSplitter *)

IsBlank(text) == \A i \in DOMAIN text : text[i] \in Space
Words(text) == FlattenSeq([i \in DOMAIN text |-> IF text[i] \in Space THEN <<>> ELSE <<text[i]>>])
Trimmed(text) ==
  LET words == {i \in DOMAIN text : text[i] \notin Space} IN
  IF words = {} THEN <<>>
  ELSE SubSeq(text, CHOOSE i \in words : \A j \in words : i <= j,
                    CHOOSE i \in words : \A j \in words : i >= j)
From(text, n) == SubSeq(text, n + 1, Len(text))

\* The first delimiter that ends a sentence; for a buffer that is too long the last one
\* within its limit (FindForceSplitPosition); 0 when there is none.
SplitPoints(buffer, isFirst, flush) ==
  {i \in DOMAIN buffer :
     \/ buffer[i] \in Strong /\ (i >= MinStrong \/ flush)
     \/ buffer[i] = "soft" /\ i >= (IF isFirst THEN FirstSoft ELSE LaterSoft)}
ForcePoints(buffer) ==
  {i \in DOMAIN buffer : Len(buffer) > MaxBuffer /\ i \in MinStrong..MaxBuffer
                         /\ buffer[i] \in Strong \union {"soft"}}
SplitLength(buffer, isFirst, flush) ==
  LET points == SplitPoints(buffer, isFirst, flush)
      forced == ForcePoints(buffer)
  IN IF points # {} THEN CHOOSE i \in points : \A j \in points : i <= j
     ELSE IF forced # {} THEN CHOOSE i \in forced : \A j \in forced : i >= j
     ELSE 0

\* EmitSentence: nothing is emitted for blanks.
EmitSentence(s, n, isLast) ==
  LET text == Trimmed(SubSeq(s.buffer, 1, n))
      rest == From(s.buffer, n)
      chunk == [index |-> s.count, text |-> text, isLast |-> isLast /\ IsBlank(rest)]
  IN IF text = <<>> THEN [s EXCEPT !.buffer = rest]
     ELSE [buffer |-> rest, count |-> s.count + 1, out |-> Append(s.out, chunk)]

Sentence == [index : Nat, text : Seq(Char), isLast : BOOLEAN]
Splitter == [buffer : Seq(Char), count : Nat, out : Seq(Sentence)]
ProcessBuffer(filled, flush) ==
  LET process[s \in Splitter] ==
        LET n == SplitLength(s.buffer, s.count = 0, flush) IN
        IF s.buffer = <<>> THEN s
        ELSE IF n > 0 THEN process[EmitSentence(s, n, flush /\ IsBlank(From(s.buffer, n)))]
        ELSE IF flush THEN EmitSentence(s, Len(s.buffer), TRUE) ELSE s
  IN process[filled]

\* The text of one event, and those of several in order.
OnLlmChatDelta(s, text) == ProcessBuffer([s EXCEPT !.buffer = @ \o text], FALSE)
Appended(s, texts) == FoldLeft(OnLlmChatDelta, s, texts)

FinalizeStream(s) == [ProcessBuffer(s, TRUE) EXCEPT !.buffer = <<>>]

-----------------------------------------------------------------------------
(* LlmClient *)

\* ProcessStreamBuffer: the events of the complete lines; flushed, what is left is a line too,
\* which is no event while its tail is missing.
Texts(buffer, flushRemainder) ==
  FlattenSeq([i \in DOMAIN buffer |->
                IF i > 1 /\ buffer[i][1] = "tail" /\ (flushRemainder \/ i < Len(buffer))
                THEN <<buffer[i][2]>> ELSE <<>>])
NoRemainder(buffer) == <<>>
Kept(buffer) ==
  IF buffer = <<>> \/ Last(buffer)[1] = "newline" THEN <<>>
  ELSE IF Last(buffer)[1] = "head" THEN <<Last(buffer)>>
  ELSE <<Last(Front(buffer)), Last(buffer)>>

OnReplyReadyRead ==
  /\ phase = "streaming" /\ unread # <<>>
  /\ LET buffer == client.buffer \o unread
         texts == Texts(buffer, FALSE)
     IN /\ client' = [buffer |-> Kept(buffer), text |-> client.text \o FlattenSeq(texts)]
        /\ splitter' = Appended(splitter, texts)
  /\ unread' = <<>>
  /\ UNCHANGED <<sent, line, phase>>

\* OnReplyFinished, with the rest of the data, and what the runtime does then: a stream
\* that failed or was cancelled is finalised like one that ended.  CancelRequest and the
\* transfer timeout abort the reply, which can no longer be read then.
Ends == {"completed", "failed", "aborted"}
OnReplyFinished(end) ==
  /\ phase = "streaming"
  /\ LET buffer == IF end = "aborted" THEN client.buffer ELSE client.buffer \o unread
         texts == Texts(buffer, TRUE)
     IN /\ client' = [buffer |-> <<>>, text |-> client.text \o FlattenSeq(texts)]
        /\ splitter' = FinalizeStream(Appended(splitter, texts))
        /\ phase' = IF end = "completed" /\ client'.text = <<>> THEN "failed" ELSE end
  /\ unread' = IF end = "aborted" THEN unread ELSE <<>>
  /\ UNCHANGED <<sent, line>>

-----------------------------------------------------------------------------
(* The server *)

\* A piece of a line; the newline ends it.
ServerSends(piece) == line' = piece /\ unread' = Append(unread, piece)

ServerBegins(text) ==
  /\ phase = "streaming" /\ line = <<>> /\ Len(sent) + Len(text) <= MaxText
  /\ ServerSends(<<"head", text>>)
  /\ UNCHANGED <<sent, client, splitter, phase>>

ServerEnds ==
  /\ phase = "streaming" /\ line # <<>> /\ line[1] = "head"
  /\ ServerSends(<<"tail", line[2]>>)
  /\ sent' = sent \o line[2]
  /\ UNCHANGED <<client, splitter, phase>>

ServerBreaks ==
  /\ phase = "streaming" /\ line # <<>> /\ line[1] = "tail"
  /\ line' = <<>>
  /\ unread' = Append(unread, <<"newline", <<>>>>)
  /\ UNCHANGED <<sent, client, splitter, phase>>

Next ==
  \/ OnReplyReadyRead
  \/ \E end \in Ends : OnReplyFinished(end)
  \/ \E text \in Delta : ServerBegins(text)
  \/ ServerEnds
  \/ ServerBreaks

Spec == Init /\ [][Next]_vars

-----------------------------------------------------------------------------
(***************************************************************************)
(* In whatever pieces the answer arrives, the text is what the server has  *)
(* sent, unless the reply was aborted: then it is what had been read,      *)
(* without the events that were lost unread (llm_client.cpp:348, :474).    *)
(* However it ends, the sentences are that text, complete, in order, none  *)
(* blank, but for blanks around them; at most the last one is marked as    *)
(* the last.                                                               *)
(***************************************************************************)
Spoken == FlattenSeq([i \in DOMAIN splitter.out |-> splitter.out[i].text])
Lost ==
  FlattenSeq([i \in DOMAIN unread |-> IF unread[i][1] = "tail" THEN unread[i][2] ELSE <<>>])
TextIsSpoken ==
  /\ IsPrefix(client.text, sent)
  /\ Words(Spoken \o splitter.buffer) = Words(client.text)
  /\ phase \in {"completed", "failed"} => client.text = sent
  /\ phase = "aborted" => client.text \o Lost = sent
  /\ phase # "streaming" => splitter.buffer = <<>>
  /\ \A i \in DOMAIN splitter.out :
       /\ splitter.out[i].index = i - 1 /\ ~IsBlank(splitter.out[i].text)
       /\ splitter.out[i].isLast => i = Len(splitter.out)

=============================================================================
