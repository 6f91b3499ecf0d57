----------------------------- MODULE Mbp131Stream -----------------------------
(***************************************************************************)
(* Streams of the MacBookPro13,1 (cs8409.c): the headphone and microphone  *)
(* paths of the CS42L83 around the PCM hooks, the four SSM3515 speaker     *)
(* amplifiers that follow the jack by hand, and the volume controls, under *)
(* jack events, runtime suspends and system sleeps.                        *)
(*                                                                         *)
(* Two threads can be in a sequence of I2C writes at once: the holder of   *)
(* jack_lock (a PCM hook, the jack handler or the speaker volume) and the  *)
(* PM callback.  What is left of a sequence is a list of steps, each an    *)
(* operation and its argument; an action takes the first.  The headphone   *)
(* and microphone volume controls take no lock and run beside both.        *)
(*                                                                         *)
(* I2C writes are taken to succeed; a write to a device marked suspended   *)
(* is refused.  Pin controls and converters of the CS8409 are left out.    *)
(***************************************************************************)
EXTENDS Integers, Sequences

CONSTANTS
  NumAmps,    \* MBP131_NUM_AMPS; odd slots carry the right channel
  Vols,       \* speaker volumes
  MaxVol,     \* MBP131_SPK_VOL_MAX, what the init of an amp leaves
  Levels,     \* headphone and microphone volumes
  Muted,      \* and a muted mixer or ADC
  Controls,   \* are those two volumes written to at all?
  MaxErrors   \* bound: failed reads of CS42L42_PWR_CTL1

ASSUME StreamAssumption ==
  /\ NumAmps \in Nat \ {0} /\ Vols \subseteq Nat /\ MaxVol \in Vols
  /\ Muted \notin Levels /\ Levels # {}
  /\ Controls \in BOOLEAN /\ MaxErrors \in Nat

Dirs  == {"playback", "capture"}
Lanes == {"lock", "pm"}
Amps  == 1..NumAmps

VARIABLES
  hp,                               \* hp_jack_in
  open,                             \* streams that hold the codec active
  started,                          \* playback_started, capture_started
  spkVol, vol,                      \* the volumes as the controls have them
  clkOn,                            \* scodec_clk_on
  bitClk, powered, enabled, level,  \* the CS42L83
  ampOn, ampVol,                    \* the amps
  l83Susp, ampSusp,                 \* `suspended' of each
  prog, on, taken,                  \* steps to do; local values
  holder,                           \* who took jack_lock last
  put,                              \* cs42l42_volume_put()
  pm, kind,                         \* PM callbacks; which suspend it was
  errors

l83  == <<bitClk, powered, enabled, level>>
amps == <<ampOn, ampVol, ampSusp>>
ctl  == <<spkVol, vol, put>>
user == <<open, kind, errors>>
work == <<on, taken, holder>>
vars == <<hp, started, clkOn, l83, l83Susp, amps, ctl, prog, work, pm, user>>

Channel(i) == i % 2
Free  == prog["lock"] = <<>>
\* User tasks are frozen from before a forced suspend until after the resume.
Awake == pm = "up" \/ kind \in {"runtime", "aborted"}

At(l, op) == prog[l] # <<>> /\ prog[l][1][1] = op
Arg(l)    == prog[l][1][2]
Rest(l)   == prog' = [prog EXCEPT ![l] = Tail(@)]

-----------------------------------------------------------------------------
(* The sequences.                                                          *)

AmpLoop(op) == [i \in Amps |-> <<op, i>>]

\* mbp131_update_speakers(), and with it mbp131_amps_power().
Speakers == <<<<"follow", "">>>> \o AmpLoop("amp")

\* Fault: channels, then clock: the order of the Dell boards' init.
StreamOnChannelsFirst(d) == <<<<"power", d>>, <<"enable", d>>, <<"clock", d>>>>

\* mbp131_cs42l83_stream().
StreamOn(d) == <<<<"power", d>>, <<"clock", d>>, <<"enable", d>>>>

StreamOff(d) == <<<<"disable", d>>, <<"unclock", d>>, <<"unpower", d>>>>

\* Fault: the amps are powered before they have their volume.
PrepareSpeakersFirst(d) ==
  StreamOn(d) \o <<<<"start", d>>, <<"take", d>>, <<"unmute", d>>>>
    \o (IF d = "playback" THEN Speakers \o AmpLoop("volume") ELSE <<>>)

PrepareHook(d) ==
  StreamOn(d) \o <<<<"start", d>>, <<"take", d>>, <<"unmute", d>>>>
    \o (IF d = "playback" THEN AmpLoop("volume") \o Speakers ELSE <<>>)

CleanupHook(d) ==
  <<<<"stop", d>>, <<"mute", d>>>>
    \o (IF d = "playback" THEN Speakers ELSE <<>>) \o StreamOff(d)

SuspendSteps(k) ==
  <<<<"clkstop", "">>>> \o AmpLoop("amp") \o AmpLoop("suspend")
    \o <<<<IF k = "runtime" THEN "standby" ELSE "down", "">>>>

LightSteps == <<<<"exit", "">>>> \o AmpLoop("allow") \o <<<<"look", "">>>>
FullSteps  == <<<<"bring", "">>>> \o AmpLoop("init")

-----------------------------------------------------------------------------
(* Who takes jack_lock.                                                    *)

Hold(who, steps) ==
  /\ Free
  /\ prog' = [prog EXCEPT !["lock"] = steps]
  /\ holder' = who
  /\ UNCHANGED <<on, taken>>

\* A stream may be prepared again, after an underrun or a system sleep.
Prepare(d) ==
  /\ pm = "up" /\ Hold("user", PrepareHook(d))
  /\ open' = [open EXCEPT ![d] = TRUE]
  /\ UNCHANGED <<hp, started, clkOn, l83, l83Susp, amps, ctl, pm, kind, errors>>

\* And cleaned up before it is closed, with no prepare since the sleep perhaps.
Cleanup(d) ==
  /\ pm = "up" /\ open[d] /\ Hold("user", CleanupHook(d))
  /\ open' = [open EXCEPT ![d] = FALSE]
  /\ UNCHANGED <<hp, started, clkOn, l83, l83Susp, amps, ctl, pm, kind, errors>>

\* The jack handler and its report. A forced suspend does not wait for one that had
\* its reference before; one that finds the chip suspended does nothing.
JackEvent ==
  /\ ~l83Susp /\ (pm = "up" \/ kind = "forced")
  /\ Hold("jack", Speakers)
  /\ hp' \in BOOLEAN
  /\ UNCHANGED <<started, clkOn, l83, l83Susp, amps, ctl, pm, user>>

\* mbp131_spk_volume_put(): without a stream the next prepare writes it.
SpeakerPut(v) ==
  /\ Awake /\ v # spkVol
  /\ Hold("user", IF started["playback"] THEN AmpLoop("volume") ELSE <<>>)
  /\ spkVol' = v
  /\ UNCHANGED <<hp, started, clkOn, l83, l83Susp, amps, vol, put, pm, user>>

-----------------------------------------------------------------------------
(* Steps on the CS42L83.                                                   *)

KeepStream == UNCHANGED <<hp, l83Susp, amps, ctl, on, holder, pm, open, kind>>

Power(l) ==
  /\ At(l, "power") /\ Rest(l)
  /\ powered' = [powered EXCEPT ![Arg(l)] = TRUE]
  /\ UNCHANGED <<started, clkOn, bitClk, enabled, level, taken, errors>> /\ KeepStream

\* `if (pwr < 0) return': nothing of the sequence is done, what follows it is.
ReadFails(l) ==
  /\ At(l, "power") \/ At(l, "disable")
  /\ errors < MaxErrors /\ errors' = errors + 1
  /\ prog' = [prog EXCEPT ![l] = SubSeq(@, 4, Len(@))]
  /\ UNCHANGED <<started, clkOn, l83, taken>> /\ KeepStream

\* To the bit clock, if a stream of the other direction is not on it already.
Clock(l) ==
  /\ At(l, "clock") /\ Rest(l)
  /\ bitClk' = (bitClk \/ ~clkOn) /\ clkOn' = TRUE
  /\ UNCHANGED <<started, powered, enabled, level, taken, errors>> /\ KeepStream

Enable(l) ==
  /\ At(l, "enable") /\ Rest(l)
  /\ enabled' = [enabled EXCEPT ![Arg(l)] = TRUE]
  /\ UNCHANGED <<started, clkOn, bitClk, powered, level, taken, errors>> /\ KeepStream

Disable(l) ==
  /\ At(l, "disable") /\ Rest(l)
  /\ enabled' = [enabled EXCEPT ![Arg(l)] = FALSE]
  /\ UNCHANGED <<started, clkOn, bitClk, powered, level, taken, errors>> /\ KeepStream

\* Back to the oscillator: mbp131_cs42l83_clk_stop(), always in a suspend, after a
\* stream only if it was the last.
ClockStop == bitClk' = (bitClk /\ ~clkOn) /\ clkOn' = FALSE

\* Fault: the clock is stopped with whatever stream ends.
UnclockAlways(l) ==
  /\ At(l, "unclock") /\ Rest(l)
  /\ ClockStop
  /\ UNCHANGED <<started, powered, enabled, level, taken, errors>> /\ KeepStream

Unclock(l) ==
  /\ At(l, "unclock") /\ Rest(l)
  /\ IF \A d \in Dirs : ~started[d] THEN ClockStop ELSE UNCHANGED <<bitClk, clkOn>>
  /\ UNCHANGED <<started, powered, enabled, level, taken, errors>> /\ KeepStream

Unpower(l) ==
  /\ At(l, "unpower") /\ Rest(l)
  /\ powered' = [powered EXCEPT ![Arg(l)] = FALSE]
  /\ UNCHANGED <<started, clkOn, bitClk, enabled, level, taken, errors>> /\ KeepStream

\* cs42l42_playback_pcm_hook() and its sibling: the mark, then the mixer or ADC. The
\* volume is read before the write waits for i2c_mux.
StartStop(l) ==
  /\ At(l, "start") \/ At(l, "stop")
  /\ Rest(l)
  /\ started' = [started EXCEPT ![Arg(l)] = At(l, "start")]
  /\ UNCHANGED <<clkOn, l83, taken, errors>> /\ KeepStream

Take(l) ==
  /\ At(l, "take") /\ Rest(l)
  /\ taken' = vol[Arg(l)]
  /\ UNCHANGED <<started, clkOn, l83, errors>> /\ KeepStream

Unmute(l) ==
  /\ At(l, "unmute") /\ Rest(l)
  /\ level' = [level EXCEPT ![Arg(l)] = taken]
  /\ UNCHANGED <<started, clkOn, bitClk, powered, enabled, taken, errors>> /\ KeepStream

Mute(l) ==
  /\ At(l, "mute") /\ Rest(l)
  /\ level' = [level EXCEPT ![Arg(l)] = Muted]
  /\ UNCHANGED <<started, clkOn, bitClk, powered, enabled, taken, errors>> /\ KeepStream

StreamStep(l) ==
  \/ Power(l) \/ ReadFails(l) \/ Clock(l) \/ Enable(l) \/ Disable(l) \/ Unclock(l)
  \/ Unpower(l) \/ StartStop(l) \/ Take(l) \/ Unmute(l) \/ Mute(l)

-----------------------------------------------------------------------------
(* Steps on the amps.                                                      *)

KeepAmp == UNCHANGED <<hp, started, clkOn, l83, l83Susp, ctl, taken, holder, pm, user>>

\* Fault: whether anything plays is not asked.
FollowJackOnly(l) ==
  /\ At(l, "follow") /\ Rest(l)
  /\ on' = [on EXCEPT ![l] = ~hp]
  /\ UNCHANGED amps /\ KeepAmp

\* `on && spec->playback_started', once for all amps.
Follow(l) ==
  /\ At(l, "follow") /\ Rest(l)
  /\ on' = [on EXCEPT ![l] = ~hp /\ started["playback"]]
  /\ UNCHANGED amps /\ KeepAmp

PowerAmp(l) ==
  /\ At(l, "amp") /\ Rest(l)
  /\ ampOn' = [ampOn EXCEPT ![Arg(l)] = IF ampSusp[Arg(l)] THEN @ ELSE on[l]]
  /\ UNCHANGED <<ampVol, ampSusp, on>> /\ KeepAmp

\* Fault: the register counts down from its own maximum.
SetVolumeDown(l) ==
  /\ At(l, "volume") /\ Rest(l)
  /\ ampVol' = [ampVol EXCEPT ![Arg(l)] =
                  IF ampSusp[Arg(l)] THEN @ ELSE MaxVol - spkVol[Channel(Arg(l))]]
  /\ UNCHANGED <<ampOn, ampSusp, on>> /\ KeepAmp

SetVolume(l) ==
  /\ At(l, "volume") /\ Rest(l)
  /\ ampVol' = [ampVol EXCEPT ![Arg(l)] =
                  IF ampSusp[Arg(l)] THEN @ ELSE spkVol[Channel(Arg(l))]]
  /\ UNCHANGED <<ampOn, ampSusp, on>> /\ KeepAmp

\* mbp131_amps_suspended(), no write.
MarkAmp(l) ==
  /\ At(l, "suspend") \/ At(l, "allow")
  /\ Rest(l)
  /\ ampSusp' = [ampSusp EXCEPT ![Arg(l)] = At(l, "suspend")]
  /\ UNCHANGED <<ampOn, ampVol, on>> /\ KeepAmp

\* mbp131_amps_init(): reset, the table, powered down.
InitAmp(l) ==
  /\ At(l, "init") /\ Rest(l)
  /\ ampSusp' = [ampSusp EXCEPT ![Arg(l)] = FALSE]
  /\ ampOn' = [ampOn EXCEPT ![Arg(l)] = FALSE]
  /\ ampVol' = [ampVol EXCEPT ![Arg(l)] = MaxVol]
  /\ UNCHANGED on /\ KeepAmp

AmpStep(l) == Follow(l) \/ PowerAmp(l) \/ SetVolume(l) \/ MarkAmp(l) \/ InitAmp(l)

-----------------------------------------------------------------------------
(* cs42l42_volume_put(): no lock and no runtime PM reference.              *)

KeepPut == UNCHANGED <<hp, started, clkOn, bitClk, powered, enabled, l83Susp, amps,
                       spkVol, prog, work, pm, user>>
NoPut == [at |-> "idle", dir |-> "playback"]

Store(d, v) ==
  /\ Controls /\ Awake /\ put = NoPut
  /\ vol' = [vol EXCEPT ![d] = v]
  /\ put' = [at |-> "test", dir |-> d]
  /\ UNCHANGED level /\ KeepPut

TestStarted ==
  /\ put.at = "test"
  /\ put' = IF started[put.dir] THEN [put EXCEPT !.at = "write"] ELSE NoPut
  /\ UNCHANGED <<vol, level>> /\ KeepPut

WriteLevel ==
  /\ put.at = "write"
  /\ level' = IF l83Susp THEN level ELSE [level EXCEPT ![put.dir] = vol[put.dir]]
  /\ put' = NoPut
  /\ UNCHANGED vol /\ KeepPut

-----------------------------------------------------------------------------
(* mbp131_suspend() and mbp131_hw_init().                                  *)

\* A runtime suspend needs all streams closed, the handlers' references gone and the
\* controls idle for the autosuspend delay; a forced one the user tasks frozen.  After an
\* aborted sleep a runtime suspend takes the system branch.
Suspend(k) ==
  /\ pm = "up" /\ put = NoPut
  /\ k # "forced" => Free /\ \A d \in Dirs : ~open[d]
  /\ k = "forced" => Free \/ holder = "jack"
  /\ pm' = "quiesce" /\ kind' = k
  /\ prog' = [prog EXCEPT !["pm"] = SuspendSteps(k)]
  /\ on' = [on EXCEPT !["pm"] = FALSE]
  /\ UNCHANGED <<hp, started, clkOn, l83, l83Susp, amps, ctl, taken, holder, open, errors>>

StopForSuspend ==
  /\ At("pm", "clkstop") /\ Rest("pm")
  /\ ClockStop
  /\ UNCHANGED <<started, powered, enabled, level, taken, errors>> /\ KeepStream

\* Fault: the chip is only marked, as if every stream had cleaned up.
StandbyMarkOnly ==
  /\ At("pm", "standby") /\ Rest("pm")
  /\ l83Susp' = TRUE /\ pm' = "down"
  /\ UNCHANGED <<hp, started, clkOn, l83, amps, ctl, work, user>>

\* standby_seq: headphone muted and its serial port off, the oscillator, everything
\* powered down.
Standby ==
  /\ At("pm", "standby") /\ Rest("pm")
  /\ level' = [level EXCEPT !["playback"] = Muted]
  /\ enabled' = [enabled EXCEPT !["playback"] = FALSE]
  /\ bitClk' = FALSE
  /\ powered' = [d \in Dirs |-> FALSE]
  /\ l83Susp' = TRUE /\ pm' = "down"
  /\ UNCHANGED <<hp, started, clkOn, amps, ctl, work, user>>

InReset ==
  /\ bitClk' = FALSE
  /\ powered' = [d \in Dirs |-> FALSE] /\ enabled' = [d \in Dirs |-> FALSE]
  /\ level' = [d \in Dirs |-> Muted]

\* The system branch, in jack_lock; no cleanup hook has run.
ShutDown ==
  /\ At("pm", "down") /\ Free /\ Rest("pm")
  /\ started' = [d \in Dirs |-> FALSE] /\ hp' = FALSE
  /\ InReset
  /\ l83Susp' = TRUE /\ pm' = "down"
  /\ UNCHANGED <<clkOn, amps, ctl, work, user>>

\* After a runtime suspend the light way, unless the system slept meanwhile.
LightResume ==
  /\ pm = "down" /\ kind = "runtime"
  /\ pm' = "wake" /\ prog' = [prog EXCEPT !["pm"] = LightSteps]
  /\ UNCHANGED <<hp, started, clkOn, l83, l83Susp, amps, ctl, work, user>>

FullResume ==
  /\ pm = "down" /\ Free
  /\ pm' = "wake" /\ prog' = [prog EXCEPT !["pm"] = FullSteps]
  /\ hp' = FALSE /\ clkOn' = FALSE /\ InReset
  /\ UNCHANGED <<started, l83Susp, amps, ctl, work, user>>

\* `suspended' cleared by cs42l42_resume() and by mbp131_standby_exit().
Bring ==
  /\ At("pm", "bring") \/ At("pm", "exit")
  /\ Rest("pm")
  /\ l83Susp' = FALSE
  /\ clkOn' = (clkOn /\ At("pm", "bring"))
  /\ UNCHANGED <<hp, started, l83, amps, ctl, work, pm, user>>

\* The jack compared; one that was pulled is reported, without jack_lock.
Look ==
  /\ At("pm", "look")
  /\ \/ hp /\ hp' = FALSE /\ prog' = [prog EXCEPT !["pm"] = Speakers]
     \/ UNCHANGED hp /\ Rest("pm")
  /\ UNCHANGED <<started, clkOn, l83, l83Susp, amps, ctl, work, pm, user>>

Up ==
  /\ pm = "wake" /\ prog["pm"] = <<>>
  /\ pm' = "up"
  /\ UNCHANGED <<hp, started, clkOn, l83, l83Susp, amps, ctl, prog, work, user>>

PmCallback ==
  \/ StopForSuspend \/ Standby \/ ShutDown \/ LightResume \/ FullResume \/ Bring
  \/ Look \/ Up

-----------------------------------------------------------------------------
\* The probe before the first init.
Init ==
  /\ hp = FALSE /\ clkOn = FALSE
  /\ open = [d \in Dirs |-> FALSE] /\ started = [d \in Dirs |-> FALSE]
  /\ spkVol = [c \in {0, 1} |-> MaxVol] /\ vol \in [Dirs -> Levels]
  /\ bitClk = FALSE /\ powered = [d \in Dirs |-> FALSE]
  /\ enabled = [d \in Dirs |-> FALSE] /\ level = [d \in Dirs |-> Muted]
  /\ ampOn = [i \in Amps |-> FALSE] /\ ampVol = [i \in Amps |-> MaxVol]
  /\ l83Susp = TRUE /\ ampSusp = [i \in Amps |-> FALSE]
  /\ prog = [l \in Lanes |-> <<>>] /\ on = [l \in Lanes |-> FALSE] /\ taken = Muted
  /\ holder = "user"
  /\ put = NoPut /\ pm = "down" /\ kind = "probe" /\ errors = 0

Next ==
  \/ \E d \in Dirs : Prepare(d) \/ Cleanup(d)
  \/ JackEvent
  \/ \E v \in [{0, 1} -> Vols] : SpeakerPut(v)
  \/ \E l \in Lanes : StreamStep(l) \/ AmpStep(l)
  \/ \E d \in Dirs, v \in Levels : Store(d, v)
  \/ TestStarted \/ WriteLevel
  \/ \E k \in {"runtime", "aborted", "forced"} : Suspend(k)
  \/ PmCallback

Spec == Init /\ [][Next]_vars

-----------------------------------------------------------------------------
TypeOK ==
  /\ hp \in BOOLEAN /\ clkOn \in BOOLEAN /\ bitClk \in BOOLEAN /\ l83Susp \in BOOLEAN
  /\ open \in [Dirs -> BOOLEAN] /\ started \in [Dirs -> BOOLEAN]
  /\ spkVol \in [{0, 1} -> Vols] /\ vol \in [Dirs -> Levels]
  /\ powered \in [Dirs -> BOOLEAN] /\ enabled \in [Dirs -> BOOLEAN]
  /\ level \in [Dirs -> Levels \union {Muted}]
  /\ ampOn \in [Amps -> BOOLEAN] /\ ampVol \in [Amps -> Vols]
  /\ ampSusp \in [Amps -> BOOLEAN]
  /\ holder \in {"user", "jack"} /\ on \in [Lanes -> BOOLEAN] /\ taken \in Levels \union {Muted}
  /\ put \in [at: {"idle", "test", "write"}, dir: Dirs]
  /\ pm \in {"up", "quiesce", "down", "wake"} /\ kind \in {"probe", "runtime", "aborted", "forced"}
  /\ errors \in 0..MaxErrors

Settled == pm = "up" /\ Free

\* Whatever jack events, streams, suspends and sleeps came in whatever order, the amps
\* are on exactly while something plays and no headphones are in
\* (mbp131_update_speakers(), 1775-1783).
SpeakersFollow ==
  Settled => \A i \in Amps : ampOn[i] = (started["playback"] /\ ~hp)

\* An amp that is on has the volume of the control, but for the one that is being set
\* just now: a prepare writes it ahead of the power, after an init from reset too
\* (1738-1763, 1880-1885).
Setting == LET steps == prog["lock"] IN
  {i \in Amps : /\ \E n \in DOMAIN steps : steps[n] = <<"volume", i>>
                /\ \A n \in DOMAIN steps : steps[n][1] = "volume"}
AmpVolume ==
  \A i \in Amps : ampOn[i] => ampVol[i] = spkVol[Channel(i)] \/ i \in Setting

\* Where no register read failed, a started stream has its blocks powered, its serial
\* port on and the bit clock, and with the last stream the clock is gone: neither
\* direction takes it from the other (1798-1866).
StreamsRun ==
  (Settled /\ errors = 0) =>
    /\ powered = started /\ enabled = started
    /\ bitClk = (\E d \in Dirs : started[d]) /\ clkOn = bitClk

\* In standby nothing is heard or drawn: amps off, the headphone muted, powered down
\* and deaf, no bit clock (2059-2083, 2153-2156).
QuietStandby ==
  (pm = "down" /\ kind = "runtime") =>
    /\ \A i \in Amps : ~ampOn[i]
    /\ ~bitClk /\ level["playback"] = Muted
    /\ ~enabled["playback"] /\ \A d \in Dirs : ~powered[d]

\* `The serial port channels only now, on the bit clock': none is enabled ahead of the
\* switch from the oscillator (1844-1850), where no failed read skipped a teardown.
ChannelsAfterClock ==
  [][errors = 0 /\ ~bitClk /\ bitClk' => \A d \in Dirs : ~enabled[d]]_vars

\* The headphone amplifier is powered while `the mixer is still muted' (1831-1835).
HpUpMuted ==
  [][~powered["playback"] /\ powered'["playback"] => level["playback"] = Muted]_vars

=============================================================================
