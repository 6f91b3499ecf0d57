----------------------------- MODULE MCI2CBridge -----------------------------
(* Small instances of I2CBridge: calls short enough to meet each other.     *)
EXTENDS I2CBridge

CONSTANTS codec, amp, h1, h2, u, p1, p2, v0, v1

Reg(p, v) == [page |-> p, val |-> v]
C(d, w, b, s) == [dev |-> d, write |-> w, bulk |-> b, regs |-> s]

\* One bulk write over both pages and one single read of the codec, one single
\* write to the amp: page changes, address changes and both orders of clock and
\* address occur.
MCCalls == { C(codec, TRUE, TRUE, <<Reg(p1, v1), Reg(p2, v1)>>),
             C(codec, FALSE, FALSE, <<Reg(p1, v0)>>),
             C(amp, TRUE, FALSE, <<Reg(p1, v1)>>) }

\* Without an amp, as on the Dell boards.
MCCallsOne == { c \in MCCalls : c.dev = codec }

\* For the liveness run: what is transferred does not matter, only who waits.
MCCallsLive == { C(codec, TRUE, TRUE, <<Reg(p1, v0)>>),
                 C(codec, TRUE, FALSE, <<Reg(p1, v0)>>) }
=============================================================================
