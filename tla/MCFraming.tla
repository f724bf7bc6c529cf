------------------------------ MODULE MCFraming -----------------------------
(* Messages whose data and neighbours hold the marks the readers look for. *)
EXTENDS Framing

\* A head of three units, and one that is over the limit.
Short == <<"a">> \o CRLF \o CRLF
Long  == <<"a">> \o CRLF \o <<"a", "a", "a", "a">> \o CRLF \o CRLF

Plain ==
    [connect |-> FALSE, parses |-> TRUE, headers |-> 1, te |-> FALSE, cl |-> NoLength, chunks |-> {}, trailing |-> 0,
     sound |-> TRUE, head |-> Short, body |-> <<>>, after |-> <<>>, data |-> <<>>]

With(cl, data, after) ==
    [Plain EXCEPT !.cl = cl, !.body = data, !.data = data, !.after = after]

Chunked(wire, chunks, data, after) ==
    [Plain EXCEPT !.te = TRUE, !.body = wire, !.chunks = chunks, !.data = data, !.after = after]

ChunkAt(from, line, size, before) ==
    [from |-> from, line |-> line, size |-> size, before |-> before]

LastChunk == <<"0">> \o CRLF \o CRLF
OnlyLast  == {ChunkAt(0, 1, 0, 0)}

\* Two chunks, the first with a line end as its data, with an extension.
TwoChunks ==
    Chunked(<<"2", ";", "b">> \o CRLF \o CRLF \o CRLF \o <<"1">> \o CRLF \o <<"b">> \o CRLF \o LastChunk,
            {ChunkAt(0, 3, 2, 0), ChunkAt(9, 1, 1, 2), ChunkAt(15, 1, 0, 3)},
            CRLF \o <<"b">>, Short)

OneChunk ==
    Chunked(<<"1">> \o CRLF \o <<"a">> \o CRLF \o LastChunk,
            {ChunkAt(0, 1, 1, 0), ChunkAt(6, 1, 0, 1)}, <<"a">>, <<"b">>)

TooMuch ==
    Chunked(<<"2">> \o CRLF \o <<"a", "a">> \o CRLF \o <<"2">> \o CRLF \o <<"b", "b">> \o CRLF \o LastChunk,
            {ChunkAt(0, 1, 2, 0), ChunkAt(7, 1, 2, 2), ChunkAt(14, 1, 0, 4)},
            <<"a", "a", "b", "b">>, <<>>)

MCMessages ==
    { Plain,
      [Plain EXCEPT !.after = Short],
      [Plain EXCEPT !.head = Long],
      \* a head with as many headers as there is room for, one with more, and no head
      [With(1, <<"a">>, <<>>) EXCEPT !.headers = 2],
      [With(1, <<"a">>, <<>>) EXCEPT !.headers = 3],
      [Plain EXCEPT !.parses = FALSE, !.sound = FALSE],
      [Plain EXCEPT !.connect = TRUE, !.cl = 2, !.after = <<"b", CR, LF>>],
      With(0, <<>>, Short),
      With(3, <<CR, LF, CR>>, <<LF, "a">>),
      With(4, <<"a", "0", "a", "b">>, <<>>),
      [With(NoLength, <<"a", "b">>, <<>>) EXCEPT !.sound = FALSE, !.cl = BadLength],
      Chunked(LastChunk, OnlyLast, <<>>, Short),
      TwoChunks,
      [OneChunk EXCEPT !.cl = 2],
      \* trailers of one and of two lines
      [Chunked(<<"0">> \o CRLF \o <<"a", "b">> \o CRLF \o CRLF, OnlyLast, <<>>, <<"b">>)
        EXCEPT !.trailing = 2],
      [Chunked(<<"0">> \o CRLF \o <<"a">> \o CRLF \o <<"b", "a">> \o CRLF \o CRLF, OnlyLast, <<>>, <<"b">>)
        EXCEPT !.trailing = 6],
      \* a line that is over the limit, and one that is close to it
      Chunked(<<"0", ";", "a", "a", "a", "a", "a", "a">> \o CRLF \o CRLF, {ChunkAt(0, 8, 0, 0)}, <<>>, <<>>),
      Chunked(<<"0", ";", "a", "a">> \o CRLF \o CRLF, {ChunkAt(0, 4, 0, 0)}, <<>>, <<>>),
      \* a body that is over the limit
      TooMuch,
      \* no size, and a chunk that is longer than its size
      [Chunked(<<"a">> \o CRLF, {}, <<>>, <<>>) EXCEPT !.sound = FALSE],
      [Chunked(<<"1">> \o CRLF \o <<"a", "b">> \o CRLF \o LastChunk, {}, <<"a">>, <<>>) EXCEPT !.sound = FALSE] }
=============================================================================
