------------------------------ MODULE MCWebTunnel ------------------------------
EXTENDS WebTunnel

(* Text is 2 and payload 3 and above, or a line feed.                      *)
Resp(kind, head) == [head |-> head, kind |-> kind, payload |-> <<3, LF, LF, 4>>]

MCResponses ==
    {Resp("101", <<2, CR, LF, 2, CR, LF, CR, LF>>),         \* fills the buffer
     Resp("101", <<CR, LF, 2, LF, LF>>),                    \* blank line first
     Resp("101", <<2, CR, LF, 2, 2, CR, LF, CR, LF>>),      \* one byte too long
     Resp("other", <<2, CR, LF, CR, LF>>),
     Resp("malformed", <<2, CR, LF, CR, LF>>),
     [Resp("101", <<2, CR, LF>>) EXCEPT !.payload = <<>>]}  \* cut off
=============================================================================
