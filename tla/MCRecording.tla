---------------------------- MODULE MCRecording ----------------------------
(* A request, the response to one that was not captured, and its own.        *)
EXTENDS RecordingOutput

MCTraffic == <<"request", "response", "response">>
MCIds == <<"A", "B", "A">>

\* A chunk per record without %r; with it, chunks of two
MCLimit == [perFile \in BOOLEAN |-> IF perFile THEN 2 ELSE 1]

Requests == INSTANCE RecordingOutput WITH Which <- "request"

\* AsFileOutput of the other output than the one the configuration names.
RequestsAsFileOutput == Requests!AsFileOutput
=============================================================================
