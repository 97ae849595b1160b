------------------------- MODULE TtsStreamingBuffer -------------------------
(***************************************************************************)
(* Streaming text to a speech synthesizer in FreeSWITCH                    *)
(* (jambonz-feature-server/lib/utils/tts-streaming-buffer.js, used by      *)
(* session/call-session.js and tasks/say.js).                              *)
(*                                                                         *)
(* Text is a sequence of numbered words; one that ends a sentence is a     *)
(* "stop".  Every word has length 1.  Each command to FreeSWITCH is        *)
(* awaited; FreeSWITCH answers in order, and an error is treated like OK.  *)
(***************************************************************************)
EXTENDS Naturals, Sequences

CONSTANTS
  High, Low,   \* HIGH_WATER_BUFFER_SIZE and LOW_WATER_BUFFER_SIZE
  Texts,       \* what one tts:tokens command can carry: sequences of word and stop
  MaxWords,    \* bound: words accepted
  MaxFlushes,  \* bound: tts:flush commands
  MaxSays      \* bound: streaming says

ASSUME BufferAssumption ==
  /\ High \in Nat /\ Low \in Nat /\ Low < High
  /\ Texts \subseteq Seq({"word", "stop"}) /\ <<>> \notin Texts
  /\ MaxWords \in Nat /\ MaxFlushes \in Nat /\ MaxSays \in Nat

VARIABLES
  queue,     \* this.queue
  size,      \* this.bufferedLength
  full,      \* this._isFull
  conn,      \* this._connectionStatus
  timer,     \* this.timer; "fresh": text came since it was set (lastUpdateTime)
  listening, \* the handlers of FreeSWITCH events are installed
  attempts,  \* connections FreeSWITCH was asked for and has not reported on
  say,       \* a streaming say runs (cs.isTtsStreamOpen)
  starting,  \* ... and will call start() after preparing the channel
  runs,      \* the runs of _feedQueue that await an answer, in order
  out,       \* everything handed to FreeSWITCH: words and flushes
  heard,     \* the number of words accepted
  paused,    \* what the application was told last
  adrift,    \* the last run found the stream closed and left text behind
  drained,   \* a flush, clear, stop or failure emptied the buffer since the last pause
  flushes, says  \* bounds

vars == <<queue, size, full, conn, timer, listening, attempts, say, starting, runs,
          out, heard, paused, adrift, drained, flushes, says>>

bufferVars == <<queue, size, timer, runs, out, adrift>>
callVars   == <<say, starting, says, flushes>>
flowVars   == <<full, paused, drained>>

Item == [kind : {"word", "stop", "flush"}, n : Nat]
\* A run of _feedQueue: what it awaits, whether the timer started it and, between a text
\* and its flush, the marker.
Run  == [at : {"text", "flush", "front", "chunk"}, late : BOOLEAN, mark : Nat]

IsText(item) == item.kind # "flush"

\* The numbers of the words among the first items of q, and among all of them.
NumbersUpTo(q) ==
  LET upTo[i \in 0..Len(q)] ==
        IF i = 0 THEN <<>>
        ELSE IF IsText(q[i]) THEN Append(upTo[i - 1], q[i].n) ELSE upTo[i - 1]
  IN  upTo

Numbers(q) == NumbersUpTo(q)[Len(q)]

TypeOK ==
  /\ queue \in Seq(Item) /\ size = Len(Numbers(queue))
  /\ full \in BOOLEAN /\ paused \in BOOLEAN
  /\ conn \in {"not", "connecting", "connected", "failed"}
  /\ timer \in {"off", "set", "fresh"}
  /\ listening \in BOOLEAN /\ attempts \in Nat
  /\ say \in BOOLEAN /\ starting \in Nat
  /\ runs \in Seq(Run) /\ out \in Seq(Item) /\ heard \in Nat
  /\ adrift \in BOOLEAN /\ drained \in BOOLEAN
  /\ flushes \in Nat /\ says \in Nat

----------------------------------------------------------------------------
(* _feedQueue, as a function of the buffer: what it does up to its next await *)

Buffer == [queue |-> queue, size |-> size, timer |-> timer, runs |-> runs,
           out |-> out, adrift |-> adrift]

Becomes(b) ==
  /\ queue' = b.queue /\ size' = b.size /\ timer' = b.timer
  /\ runs' = b.runs /\ out' = b.out /\ adrift' = b.adrift

Await(b, stage, late) ==
  [b EXCEPT !.runs = Append(@, [at |-> stage, late |-> late, mark |-> 0])]

\* _setTimerIfNeeded
SetTimer(b) == [b EXCEPT !.timer = IF b.size > 0 /\ @ = "off" THEN "set" ELSE @]

\* Where a chunk may end: after a sentence or, when the timer has fired, before the
\* last word.
Stops(q) == {i \in 1..Len(q) : q[i].kind = "stop" /\ \A j \in 1..i : IsText(q[j])}

TextLength(q) ==
  IF \E i \in 1..Len(q) : ~IsText(q[i])
  THEN (CHOOSE i \in 1..Len(q) : ~IsText(q[i]) /\ \A j \in 1..(i - 1) : IsText(q[j])) - 1
  ELSE Len(q)

ChunkEnd(q, late) ==
  IF Stops(q) # {} THEN CHOOSE i \in Stops(q) : \A j \in Stops(q) : j <= i
  ELSE IF late /\ TextLength(q) > 0 THEN TextLength(q) - 1
  ELSE 0

\* Mutant: the chunk stays in the queue.
SendChunkKeepsIt(b, n) ==
  [Await(b, "chunk", FALSE) EXCEPT !.out = @ \o SubSeq(b.queue, 1, n), !.size = @ - n]

SendChunk(b, n) ==
  [Await(b, "chunk", FALSE) EXCEPT !.out = @ \o SubSeq(b.queue, 1, n),
                                   !.queue = SubSeq(@, n + 1, Len(@)),
                                   !.size = @ - n]

Phase2(b, late) ==
  LET n == ChunkEnd(b.queue, late)
  IN  IF b.queue = <<>> THEN [b EXCEPT !.timer = "off"]
      ELSE IF n = 0 THEN SetTimer(b)
      ELSE SendChunk(b, n)

\* Flush markers at the front are sent one after the other.
Front(b, late) ==
  IF b.queue # <<>> /\ ~IsText(Head(b.queue))
  THEN Await([b EXCEPT !.queue = Tail(@), !.out = Append(@, Head(b.queue))], "front", late)
  ELSE Phase2(b, late)

Marks(q) == {i \in 2..Len(q) : ~IsText(q[i])}

\* Phase 1: everything up to the first flush marker that is not at the front (a marker
\* there is dropped) is taken off the queue; the text is sent, then the flush.  Two markers
\* are never adjacent, so there is text.
Phase1(b, late) ==
  IF Marks(b.queue) = {} THEN Front(b, late)
  ELSE LET i == CHOOSE k \in Marks(b.queue) : \A j \in Marks(b.queue) : k <= j
           text == SubSeq(b.queue, IF IsText(b.queue[1]) THEN 1 ELSE 2, i - 1)
       IN  [b EXCEPT !.queue = SubSeq(@, i + 1, Len(@)), !.size = @ - Len(text),
                     !.out = @ \o text,
                     !.runs = Append(@, [at |-> "text", late |-> late, mark |-> b.queue[i].n])]

StreamOpen == say /\ conn = "connected"

Feed(b, open, late) ==
  IF open THEN Phase1([b EXCEPT !.adrift = FALSE], late)
          ELSE [b EXCEPT !.adrift = @ \/ b.queue # <<>>]
----------------------------------------------------------------------------
Init ==
  /\ queue = <<>> /\ size = 0 /\ full = FALSE /\ conn = "not" /\ timer = "off"
  /\ listening = FALSE /\ attempts = 0 /\ say = FALSE /\ starting = 0
  /\ runs = <<>> /\ out = <<>> /\ heard = 0
  /\ paused = FALSE /\ adrift = FALSE /\ drained = FALSE
  /\ flushes = 0 /\ says = 0
----------------------------------------------------------------------------
(* The application *)

Numbered(text) == [i \in 1..Len(text) |-> [kind |-> text[i], n |-> heard + i]]

\* bufferTokens
Tokens(text) ==
  /\ conn # "failed" /\ heard + Len(text) <= MaxWords
  /\ size + Len(text) <= High
  /\ heard' = heard + Len(text)
  /\ Becomes(Feed([Buffer EXCEPT !.queue = @ \o Numbered(text), !.size = @ + Len(text),
                                 !.timer = IF @ = "set" THEN "fresh" ELSE @],
                  StreamOpen, FALSE))
  /\ UNCHANGED <<conn, listening, attempts>> /\ UNCHANGED callVars /\ UNCHANGED flowVars

\* bufferTokens, too much: the text is rejected and the application is paused.
TokensRejected(text) ==
  /\ conn # "failed" /\ heard + Len(text) <= MaxWords
  /\ size + Len(text) > High
  /\ full' = TRUE /\ paused' = (paused \/ ~full)
  /\ drained' = (drained /\ full)
  /\ UNCHANGED <<heard, conn, listening, attempts>>
  /\ UNCHANGED callVars /\ UNCHANGED bufferVars

\* Mutant: a flush is always sent at once.
FlushAtOnce ==
  /\ conn \in {"connecting", "connected"} /\ flushes < MaxFlushes
  /\ flushes' = flushes + 1
  /\ out' = Append(out, [kind |-> "flush", n |-> heard])
  /\ UNCHANGED <<queue, size, timer, runs, adrift, heard, conn, listening, attempts>>
  /\ UNCHANGED <<say, starting, says>> /\ UNCHANGED flowVars

\* flush: at once when nothing is queued, else behind the text; it does not feed.
Flush ==
  /\ conn \in {"connecting", "connected"} /\ flushes < MaxFlushes
  /\ flushes' = flushes + 1
  /\ LET marker == [kind |-> "flush", n |-> heard]
     IN  IF conn = "connected" /\ queue = <<>>
         THEN out' = Append(out, marker) /\ UNCHANGED queue
         ELSE /\ UNCHANGED out
              /\ queue' = IF queue # <<>> /\ ~IsText(queue[Len(queue)]) THEN queue
                          ELSE Append(queue, marker)
  /\ UNCHANGED <<size, timer, runs, adrift, heard, conn, listening, attempts>>
  /\ UNCHANGED <<say, starting, says>> /\ UNCHANGED flowVars

\* clear, by tts:clear or because the caller interrupts; the application is not told
\* that it may go on.
Clear ==
  /\ conn = "connected"
  /\ queue' = <<>> /\ size' = 0 /\ timer' = "off" /\ full' = FALSE
  /\ drained' = TRUE
  /\ UNCHANGED <<runs, out, adrift, paused, heard, conn, listening, attempts>>
  /\ UNCHANGED callVars
----------------------------------------------------------------------------
(* The say verb *)

SayBegins ==
  /\ ~say /\ says < MaxSays
  /\ say' = TRUE /\ starting' = starting + 1 /\ says' = says + 1
  /\ UNCHANGED <<heard, conn, listening, attempts, flushes>>
  /\ UNCHANGED bufferVars /\ UNCHANGED flowVars

\* start(): its assertion rejects, unheard, unless the buffer is not connected.  The say
\* does not look whether it was killed meanwhile.
SayStarts ==
  /\ starting > 0
  /\ starting' = starting - 1
  /\ IF conn = "not"
     THEN conn' = "connecting" /\ listening' = TRUE /\ attempts' = attempts + 1
     ELSE UNCHANGED <<conn, listening, attempts>>
  /\ UNCHANGED <<heard, say, says, flushes>> /\ UNCHANGED bufferVars /\ UNCHANGED flowVars

\* All that was sent is spoken (notifyTtsStreamIsEmpty), or the say's own text could not
\* be buffered: the say ends, the stream stays.
SayEnds ==
  /\ say /\ starting = 0
  /\ say' = FALSE
  /\ UNCHANGED <<heard, conn, listening, attempts, starting, says, flushes>>
  /\ UNCHANGED bufferVars /\ UNCHANGED flowVars

\* stop(); _isFull is left as it is.
Stop ==
  /\ queue' = <<>> /\ size' = 0 /\ timer' = "off" /\ listening' = FALSE /\ conn' = "not"

SayKilled ==
  /\ say
  /\ say' = FALSE /\ drained' = TRUE
  /\ Stop
  /\ UNCHANGED <<runs, out, adrift, heard, attempts, starting, says, flushes, full, paused>>
----------------------------------------------------------------------------
(* FreeSWITCH and the timer *)

\* _onConnect
Connected ==
  /\ attempts > 0 /\ listening
  /\ attempts' = attempts - 1 /\ conn' = "connected"
  /\ IF queue = <<>> THEN UNCHANGED bufferVars ELSE Becomes(Feed(Buffer, say, FALSE))
  /\ UNCHANGED <<heard, listening>> /\ UNCHANGED callVars /\ UNCHANGED flowVars

\* _onConnectFailure
ConnectFails ==
  /\ attempts > 0 /\ listening
  /\ attempts' = attempts - 1 /\ conn' = "failed"
  /\ queue' = <<>> /\ size' = 0 /\ drained' = TRUE
  /\ UNCHANGED <<timer, runs, out, adrift, heard, listening, full, paused>>
  /\ UNCHANGED callVars

\* The connect command itself fails, perhaps after the buffer was stopped.
ConnectRefused ==
  /\ attempts > 0
  /\ attempts' = attempts - 1 /\ conn' = "failed"
  /\ UNCHANGED <<heard, listening>>
  /\ UNCHANGED bufferVars /\ UNCHANGED callVars /\ UNCHANGED flowVars

\* Nobody listens any more.
ConnectUnheard ==
  /\ attempts > 0 /\ ~listening
  /\ attempts' = attempts - 1
  /\ UNCHANGED <<heard, conn, listening>>
  /\ UNCHANGED bufferVars /\ UNCHANGED callVars /\ UNCHANGED flowVars

\* _onTimeout
Timeout ==
  /\ timer # "off"
  /\ Becomes(IF timer = "fresh" THEN SetTimer([Buffer EXCEPT !.timer = "off"])
             ELSE Feed([Buffer EXCEPT !.timer = "off"], StreamOpen, TRUE))
  /\ UNCHANGED <<heard, conn, listening, attempts>>
  /\ UNCHANGED callVars /\ UNCHANGED flowVars

Rest == [Buffer EXCEPT !.runs = Tail(@)]
Answered(stage) == runs # <<>> /\ Head(runs).at = stage

\* The text before a flush was sent: send the flush, whatever happened meanwhile.
TextSent ==
  /\ Answered("text")
  /\ Becomes(Await([Rest EXCEPT !.out = Append(@, [kind |-> "flush", n |-> Head(runs).mark])],
                   "flush", Head(runs).late))
  /\ drained' = TRUE
  /\ UNCHANGED <<heard, conn, listening, attempts, full, paused>> /\ UNCHANGED callVars

\* Mutant: the run ends after its first flush.
FlushSentEndsRun ==
  /\ Answered("flush")
  /\ Becomes(Rest)
  /\ UNCHANGED <<heard, conn, listening, attempts>>
  /\ UNCHANGED callVars /\ UNCHANGED flowVars

FlushSent ==
  /\ Answered("flush")
  /\ Becomes(Phase1(Rest, Head(runs).late))
  /\ UNCHANGED <<heard, conn, listening, attempts>>
  /\ UNCHANGED callVars /\ UNCHANGED flowVars

FrontFlushSent ==
  /\ Answered("front")
  /\ Becomes(Front(Rest, Head(runs).late))
  /\ UNCHANGED <<heard, conn, listening, attempts>>
  /\ UNCHANGED callVars /\ UNCHANGED flowVars

\* Mutant: the application is not told.
ResumeIfDrainedSilently ==
  IF full /\ size <= Low THEN full' = FALSE /\ UNCHANGED <<paused, drained>>
                         ELSE UNCHANGED flowVars

\* Let the application go on when the buffer is nearly empty.
ResumeIfDrained ==
  IF full /\ size <= Low THEN full' = FALSE /\ paused' = FALSE /\ UNCHANGED drained
                         ELSE UNCHANGED flowVars

ChunkSent ==
  /\ Answered("chunk")
  /\ ResumeIfDrained
  /\ Becomes(Feed(Rest, StreamOpen, FALSE))
  /\ UNCHANGED <<heard, conn, listening, attempts>> /\ UNCHANGED callVars
----------------------------------------------------------------------------
Application == Flush \/ Clear \/ \E text \in Texts : Tokens(text) \/ TokensRejected(text)
Say == SayBegins \/ SayStarts \/ SayEnds \/ SayKilled
FreeSwitch ==
  \/ Connected \/ ConnectFails \/ ConnectRefused \/ ConnectUnheard
  \/ TextSent \/ FlushSent \/ FrontFlushSent \/ ChunkSent

Next == Application \/ Say \/ FreeSwitch \/ Timeout

\* FreeSWITCH answers and the timer fires; nothing is owed by application, say or caller.
Fairness == WF_vars(FreeSwitch) /\ WF_vars(Timeout)

Spec == Init /\ [][Next]_vars /\ Fairness
----------------------------------------------------------------------------
(* Properties *)

\* "all text preceding it will be sent ... before the flush is issued" (flush), although
\* runs of _feedQueue interleave: no flush overtakes a word it was sent after.
FlushFollowsItsText ==
  \A i, j \in 1..Len(out) : (i < j /\ ~IsText(out[i]) /\ IsText(out[j])) => out[i].n < out[j].n

\* Words are handed to FreeSWITCH in the order they came and once (_feedQueue).
Stream == INSTANCE TextStream WITH
  heard <- heard, waiting <- Numbers(queue), spoken <- Numbers(out)
StreamsText == Stream!Spec

\* A finished sentence, and text before a flush, is spoken while the stream stays open.
Finished(k) ==
  \E i \in 1..Len(queue) : \E j \in i..Len(queue) :
    queue[i].n = k /\ IsText(queue[i]) /\ queue[j].kind \in {"stop", "flush"}
FinishedTextIsSpoken ==
  \A k \in 1..MaxWords : Finished(k) ~> (~Finished(k) \/ ~StreamOpen \/ adrift)

\* An application that was paused with the buffer above the low-water mark is told to go on
\* (ChunkSent), unless the buffer was emptied otherwise or the stream was closed.
PausedIsResumed ==
  (paused /\ size > Low) ~> (~paused \/ drained \/ ~StreamOpen \/ adrift)
============================================================================
