--------------------------- MODULE MCFrameParser ---------------------------
EXTENDS FrameParser

Command(cmd, n) ==
  [module |-> "MDMM", crc |-> FALSE, cmd |-> cmd, n |-> n, sound |-> TRUE]
Beat == [module |-> "BEAT", crc |-> FALSE, cmd |-> 0, n |-> 0, sound |-> TRUE]

\* One frame of each kind the parser tells apart: the answer with an address
\* is longer than 28 bytes of data, so that it can be cut before and after n.
\* The list of devices of 31 and the offer of 30 cannot be read; 12 and 25 stand
\* for those that can.
MCFrames ==
  {Beat, [Command(0, 10) EXCEPT !.crc = TRUE],
   Command(0, 10), Command(12, 60), Command(25, 60), Command(24, 30),
   Command(16, 9), Command(8, 19), Command(7, 13), Command(6, 10),
   Command(39, 21), Command(13, 9), Command(99, 9),
   [Command(31, 20) EXCEPT !.sound = FALSE], [Command(30, 30) EXCEPT !.sound = FALSE]}

\* Before ret, before n, before the command, before byte 37, before the end of
\* a short command, before n bytes and after n bytes of a long one.
MCCuts == {8, 20, 30, 37, 38, 46, 70}
=============================================================================
