------------------------ MODULE MCTtsStreamingBuffer ------------------------
(* Small instances of TtsStreamingBuffer. *)
EXTENDS TtsStreamingBuffer

\* Commands with one word, and with the end of a sentence and the beginning of the next.
SmallTexts == {<<"word">>, <<"stop", "word">>}
============================================================================
