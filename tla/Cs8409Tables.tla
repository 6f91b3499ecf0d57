---------------------------- MODULE Cs8409Tables ----------------------------
(***************************************************************************)
(* What cs8409-tables.c has the driver write into the coefficient file of  *)
(* the CS8409, board by board: the init verbs, which the HDA core sends at *)
(* every init, and the sequence of each hw_init.  And, from the sequences  *)
(* of the companion chips, the bit positions of the audio frame at which   *)
(* those chips listen and talk.                                            *)
(***************************************************************************)
EXTENDS Integers, Sequences, FiniteSets

\* enum cs8409_coefficient_index_registers
DEV_CFG1 == 0
DEV_CFG2 == 1
DEV_CFG3 == 2
ClkCtrl  == [p \in 1..2 |-> (3 * p)..(3 * p + 2)]
DMIC_CFG == 9
BEEP_CFG == 10
ASP2_Rx  == 17                 \* null insertion; the rate follows
ASP2_Tx  == 20
ASP1_SYNC_CTRL == 23
TxCtrl == [p \in 1..2 |-> IF p = 1 THEN 25..40 ELSE 41..56]
RxCtrl == [p \in 1..2 |-> IF p = 1 THEN 57..72 ELSE 73..88]
I2C_ADDR == 89
I2C_CTRL == 91
I2C_STS  == 92
I2C_QWRITE == 93
I2C_QREAD  == 94
PFE_COEF_W1 == 99
PFE_COEF_W2 == 100
PFE_CTRL1   == 101
PRE_SCALE_ATTN2 == 104
PAD_CFG_SLW_RATE_CTRL == 130
TestRegs == {192, 197}         \* 0xc0 and 0xc5, outside the enum
CoefRegs == (0..130) \union TestRegs

\* First register of a channel of a port: A is 0, B is 1.
Tx(p, c) == (IF p = 1 THEN 25 ELSE 41) + 2 * c
Rx(p, c) == (IF p = 1 THEN 57 ELSE 73) + 2 * c

Dell   == {"bullseye", "warlock", "warlock_mlk", "dual_mic", "cyborg", "odin"}
BoardNames == Dell \union {"dolphin", "cdb35l56", "mbp131"}

Set(r, v) == [kind |-> "set", reg |-> r, val |-> v]
Get(r)    == [kind |-> "get", reg |-> r, val |-> 0]

\* Consecutive registers from r on.
Sets(r, vs) == [i \in 1..Len(vs) |-> Set(r + i - 1, vs[i])]

-----------------------------------------------------------------------------
(* The verbs to the vendor widget; the one before them enables processing. *)
InitVerbsOf == [b \in BoardNames |->
  CASE b = "cdb35l56" -> <<>>
    [] b = "mbp131"   -> <<Set(DEV_CFG3, \h0280), Set(I2C_CTRL, \h0010)>>
    [] OTHER          -> <<Set(DEV_CFG3, \h0080), Set(I2C_CTRL, \h0200)>>]

cs8409_cs42l42_hw_cfg ==
  <<Set(DEV_CFG1, \hb008), Set(DEV_CFG2, \h0002), Set(DEV_CFG3, \h0a80)>>
  \o Sets(Tx(1, 0), <<\h0800, \h0820>>) \o Sets(Tx(2, 0), <<\h0800, \h2800>>)
  \o Sets(Rx(1, 0), <<\h0800, \h0800>>)
  \o Sets(3, <<\h8000, \h28ff, \h0062, \h801f, \h283f, \h805c>>)
  \o <<Set(DMIC_CFG, \h0023), Set(BEEP_CFG, 0), Set(DEV_CFG2, \h0062),
       Set(DEV_CFG1, \h9008), Set(PRE_SCALE_ATTN2, 0),
       Set(PAD_CFG_SLW_RATE_CTRL, \hfc03),
       Set(192, \h9999), Set(197, 0), Set(192, 0)>>

\* The equaliser of Bullseye: ten coefficients, each a high word and then a
\* write command that carries its address and low bits.
EqCoefs == << <<\h0647, \hc0c7>>, <<\h0647, \hc1c7>>, <<\hf370, \hc271>>,
              <<\h1ef8, \hc348>>, <<\hc110, \hc45a>>, <<\h1f29, \hc574>>,
              <<\h1d7a, \hc653>>, <<\hc38c, \hc714>>, <<\h1ca3, \hc8c7>>,
              <<\hc38c, \hc914>> >>

cs8409_cs42l42_bullseye_atn ==
  <<Set(PFE_CTRL1, \h4000), Set(PFE_COEF_W2, \h4000), Set(PFE_CTRL1, \h4010)>>
  \o [i \in 1..20 |-> Set(IF i % 2 = 1 THEN PFE_COEF_W1 ELSE PFE_COEF_W2,
                          EqCoefs[(i + 1) \div 2][2 - (i % 2)])]
  \o <<Set(PFE_COEF_W2, 0)>>

dolphin_hw_cfg ==
  <<Set(DEV_CFG1, \hb008), Set(DEV_CFG2, \h0002), Set(DEV_CFG3, \h0a80)>>
  \o Sets(Tx(1, 0), <<\h0800, \h0820, \h0880, \h08a0>>)
  \o Sets(Rx(1, 0), <<\h0800, \h0800>>) \o Sets(3, <<\h8000, \h28ff, \h0062>>)
  \o <<Set(BEEP_CFG, 0), Set(DEV_CFG2, \h0022), Set(DEV_CFG1, \h9008),
       Set(PAD_CFG_SLW_RATE_CTRL, \h5400),
       Set(192, \h9999), Set(197, 0), Set(192, 0)>>

cs8409_cdb35l56_four_hw_cfg ==
  <<Set(DEV_CFG1, \hb008), Set(DEV_CFG2, \h0002), Set(DEV_CFG3, \h0a80)>>
  \o Sets(Tx(2, 0), <<\h0800, \h2800>>) \o Sets(Rx(2, 0), <<\h0800, \h2800>>)
  \o Sets(3, <<\h8000, \h28ff, \h0062, \h801f, \h283f, \h805c>>)
  \o <<Set(BEEP_CFG, 0), Set(DEV_CFG2, \h0062), Set(DEV_CFG1, \h9008),
       Set(PRE_SCALE_ATTN2, 0), Set(PAD_CFG_SLW_RATE_CTRL, \hfc03)>>

mbp131_hw_cfg ==
  <<Set(DEV_CFG1, \hb008), Set(DEV_CFG2, \h0200)>>
  \o Sets(Tx(1, 0), <<\h0800, \h0820, \h0840, \h0860>>)
  \o Sets(3, <<\h8000, \h08ff, \h0001>>) \o <<Set(ASP1_SYNC_CTRL, 3)>>
  \o Sets(Tx(2, 0), <<\h0800, \h0820>>) \o Sets(Rx(2, 0), <<\h0800, \h0820>>)
  \o <<Set(ASP2_Tx + 1, \haaaa), Set(ASP2_Tx, \h0100),
       Set(ASP2_Rx + 1, \haccc), Set(ASP2_Rx, \h0001)>>
  \o Sets(6, <<\h8000, \h10ff, \h0042>>)
  \o <<Set(DMIC_CFG, \h0033), Set(BEEP_CFG, 0),
       Set(PAD_CFG_SLW_RATE_CTRL, \hfc01), Set(DEV_CFG3, \h0280),
       Set(DEV_CFG2, \h0260)>>

\* mbp131_hw_init(): every slot off, but for ASP2_H_RX_CTRL2.
SlotOff == \h8000
SlotsOff == [i \in 1..63 |-> Set(Tx(1, 0) + i - 1, SlotOff)]

\* cs8409_cs42l42_hw_init(): what it adds to its table for some boards.
DellExtra(b) ==
  CASE b = "bullseye" -> cs8409_cs42l42_bullseye_atn
    [] b \in {"cyborg", "dual_mic"} -> <<Set(DMIC_CFG, \h0003)>>
    [] b = "odin" -> <<Set(PAD_CFG_SLW_RATE_CTRL, \hfc00)>>
    [] OTHER -> <<>>

HwConfigOf == [b \in BoardNames |->
  CASE b \in Dell -> cs8409_cs42l42_hw_cfg \o DellExtra(b)
    [] b = "dolphin"  -> dolphin_hw_cfg
    [] b = "cdb35l56" -> cs8409_cdb35l56_four_hw_cfg
    [] OTHER          -> SlotsOff \o mbp131_hw_cfg]

\* mbp131_standby_intact(): the register it picks, and the value it expects.
StandbyMark == LET seq == mbp131_hw_cfg
                IN  seq[CHOOSE i \in 1..Len(seq) : seq[i].reg = Tx(2, 0)]

-----------------------------------------------------------------------------
(* Positions of the frame, in bit clocks: side, port, and where it starts. *)
Pos(side, p, b) == [side |-> side, port |-> p, bit |-> b]
Stereo(p, l, r) == {Pos("left", p, l), Pos("right", p, r)}

\* The positions at which each companion chip takes its channels ...
cs42l42_rx    == Stereo(1, 0, \h20)
dolphin_c0_rx == Stereo(1, 0, \h20)
dolphin_c1_rx == Stereo(1, \h80, \ha0)
cs42l83_rx    == Stereo(2, 0, \h20)
\* ... amps 0 and 1 the left channel, 2 and 3 the right one, in slots of 32 bits ...
mbp131_ssm3515_slot == <<0, 2, 1, 3>>
ssm3515_rx == { Pos(IF n <= 2 THEN "left" ELSE "right", 1,
                    32 * mbp131_ssm3515_slot[n]) : n \in 1..4 }
\* ... and at which they send the microphone.
cs42l42_tx == Stereo(1, 0, 0)
cs42l83_tx == Stereo(2, 0, \h20)

Listeners == [b \in BoardNames |->
  CASE b \in Dell       -> cs42l42_rx
    [] b = "dolphin"    -> dolphin_c0_rx \union dolphin_c1_rx
    [] b = "mbp131"     -> cs42l83_rx \union ssm3515_rx
    [] OTHER            -> {}]
Talkers == [b \in BoardNames |->
  CASE b \in Dell \union {"dolphin"} -> cs42l42_tx
    [] b = "mbp131" -> cs42l83_tx
    [] OTHER -> {}]
=============================================================================
