------------------------------- MODULE Sound --------------------------------
(***************************************************************************)
(* Playing a WAV file: sound_play_wav_path of kernel.c with the bump heap   *)
(* it takes its buffers from, the resampler's size, and ac97_play_pcm with  *)
(* the sample buffer, the descriptor list and the DMA engine that reads     *)
(* them while the next sound is being prepared.                             *)
(*                                                                          *)
(* Sizes are scaled: Field is the 0x8000 of the code (a descriptor takes    *)
(* 2 * Field - 2 samples, its length is kept modulo Field, and bit Field is *)
(* the driver's mark of the last one), a page holds Page samples; rates are *)
(* in kHz.                                                                  *)
(***************************************************************************)
EXTENDS Integers, Sequences, FiniteSets

CONSTANTS
  Sounds,            \* parsed files: ok, frames, channels, rate
  Field, BdCount, Page,
  HeapSize,          \* KHEAP_PAGES, in samples
  FileSize,          \* max_sz of sound_play_wav_path
  PoolSize,          \* FALLBACK_POOL_SIZE, in pages
  MaxPlays           \* bound on the number of files played

ASSUME SoundAssumption ==
  /\ Sounds \subseteq [ok : BOOLEAN, frames : Nat, ch : Nat, rate : Nat]
  /\ Field \in Nat \ {0, 1} /\ BdCount \in Nat \ {0} /\ Page \in Nat \ {0}
  /\ HeapSize \in Nat /\ FileSize \in Nat /\ PoolSize \in Nat /\ MaxPlays \in Nat

VARIABLES
  at,        \* "idle", or the step of the call: "rate", "copy", "list", "reset", "start"
  cur,       \* the sound of the call in progress, with the number of the call
  brk,       \* kheap_brk
  pool,      \* fb_cursor, pages handed out
  pcm,       \* g_pcm_buf: first page, pages, and the call whose samples it holds
  bd,        \* g_bd: call, offset and length of each descriptor
  eng,       \* the engine: running, CIV, LVI
  dac,       \* AC97_PCM_FRONT_RATE: the rate at which samples are heard
  lastok,    \* history: the last call that started the engine
  okrate,    \* history: the rate of that call
  plays

soundvars == <<at, cur, brk, pool, pcm, bd, eng, dac, lastok, okrate, plays>>

Bd == 0 .. BdCount - 1
Pages(n) == (n + Page - 1) \div Page
NoSound == [id |-> 0]

SoundInit ==
  /\ at = "idle" /\ cur = NoSound /\ brk = 0 /\ plays = 0 /\ lastok = 0 /\ dac = 48 /\ okrate = 48
  /\ pool = 1                                  \* the descriptor table of ac97_init
  /\ pcm = [base |-> 0, pages |-> 0, id |-> 0]
  /\ bd = [i \in Bd |-> [id |-> 0, off |-> 0, n |-> 0]]
  /\ eng = [run |-> FALSE, civ |-> 0, lvi |-> 0]

\* kmalloc: the new break, or -1.
kmalloc(b, n) == IF n = 0 \/ b + n > HeapSize THEN -1 ELSE b + n

Oframes(f) == (f.frames * 48 + f.rate \div 2) \div f.rate     \* rates in kHz

\* resample_linear_16 and what is played after it: break, frames, rate.
\* Without memory for it the sound is played at its own rate.
resample(b, f) ==
  LET n == kmalloc(b, Oframes(f) * f.ch)
  IN  IF f.rate \in {0, 48} THEN [brk |-> b, frames |-> f.frames, rate |-> 48]
      ELSE IF f.ch \notin {1, 2} \/ Oframes(f) = 0 \/ n = -1
           THEN [brk |-> b, frames |-> f.frames, rate |-> f.rate]
           ELSE [brk |-> n, frames |-> Oframes(f), rate |-> 48]

\* The whole of sound_play_wav_path up to ac97_play_pcm; what was taken from
\* the heap is never given back.
sound_play_wav_path ==
  /\ at = "idle" /\ plays < MaxPlays
  /\ plays' = plays + 1
  /\ \E f \in Sounds :
       LET b == kmalloc(brk, FileSize)
           r == resample(b, f)
           plays_it == b # -1 /\ f.ok /\ f.ch > 0 /\ r.frames > 0 /\ f.ch \in {1, 2}
       IN  /\ brk' = IF b = -1 THEN brk ELSE IF f.ok /\ f.ch > 0 THEN r.brk ELSE b
           /\ IF plays_it
              THEN at' = "rate" /\ cur' = [id |-> plays + 1, frames |-> r.frames, ch |-> f.ch, rate |-> r.rate]
              ELSE at' = "idle" /\ cur' = NoSound
  /\ UNCHANGED <<pool, pcm, bd, eng, dac, lastok, okrate>>

\* ac97_play_pcm first turns variable rate on and sets the rate, within what
\* the codec can do; a sound that is playing goes on at this rate.
Clamp(r) == IF r < 8 THEN 8 ELSE IF r > 48 THEN 48 ELSE r
SetRate ==
  /\ at = "rate" /\ at' = "copy" /\ dac' = Clamp(cur.rate)
  /\ UNCHANGED <<cur, brk, pool, pcm, bd, eng, lastok, okrate, plays>>

\* A larger buffer if the sound needs one, and the samples.
CopySamples ==
  LET need == Pages(cur.frames * cur.ch)
      grow == need > pcm.pages
  IN  /\ at = "copy" /\ (grow => pool + need <= PoolSize)
      /\ pcm' = IF grow THEN [base |-> pool, pages |-> need, id |-> cur.id] ELSE [pcm EXCEPT !.id = cur.id]
      /\ pool' = IF grow THEN pool + need ELSE pool
      /\ at' = "list" /\ UNCHANGED <<cur, brk, bd, eng, dac, lastok, okrate, plays>>

\* alloc_phys_block fails; the rate stays as it was set.
NoBuffer ==
  /\ at = "copy" /\ Pages(cur.frames * cur.ch) > pcm.pages
  /\ pool + Pages(cur.frames * cur.ch) > PoolSize
  /\ at' = "idle" /\ cur' = NoSound /\ UNCHANGED <<brk, pool, pcm, bd, eng, dac, lastok, okrate, plays>>

\* The frames of descriptor i, 0 when the sound ends before it.
Most == (2 * Field - 2) \div cur.ch
FramesOf(i) ==
  LET left == cur.frames - i * Most IN IF left <= 0 THEN 0 ELSE IF left * cur.ch > 2 * Field - 2 THEN Most ELSE left
Used == {i \in Bd : FramesOf(i) > 0}

\* The descriptors, up to the end of the table; the rest of the sound is
\* dropped.  The mark "IOC" of the last one is or-ed into its length, not
\* into the control word: for the engine the length is that much larger.
WriteList ==
  /\ at = "list"
  /\ bd' = [i \in Bd |-> IF i \in Used
                         THEN [id |-> cur.id, off |-> i * Most * cur.ch, n |-> ((FramesOf(i) * cur.ch - 1) % Field) + (IF i + 1 \in Used THEN 0 ELSE Field)]
                         ELSE bd[i]]
  /\ at' = "reset" /\ UNCHANGED <<cur, brk, pool, pcm, eng, dac, lastok, okrate, plays>>

\* Mutant: the engine is not stopped before it is started again.
ResetForgotten == at = "reset" /\ at' = "start" /\ UNCHANGED <<cur, brk, pool, pcm, bd, eng, dac, lastok, okrate, plays>>

\* CR_RR, and the wait for the engine to clear it.
Reset ==
  /\ at = "reset" /\ at' = "start"
  /\ eng' = [run |-> FALSE, civ |-> 0, lvi |-> 0]
  /\ UNCHANGED <<cur, brk, pool, pcm, bd, dac, lastok, okrate, plays>>

\* CIV is read only for the device: the write of 0 is what the reset left.
Start ==
  /\ at = "start" /\ at' = "idle" /\ lastok' = cur.id /\ okrate' = Clamp(cur.rate)
  /\ eng' = [eng EXCEPT !.run = TRUE, !.lvi = Cardinality(Used) - 1]
  /\ cur' = NoSound /\ UNCHANGED <<brk, pool, pcm, bd, dac, plays>>

\* The device (external): the engine fetches the samples of the descriptor
\* CIV, and goes on to the next one until LVI.
DmaFetch ==
  /\ eng.run
  /\ eng' = IF eng.civ = eng.lvi THEN [eng EXCEPT !.run = FALSE] ELSE [eng EXCEPT !.civ = (@ + 1) % BdCount]
  /\ UNCHANGED <<at, cur, brk, pool, pcm, bd, dac, lastok, okrate, plays>>

SoundNext ==
  \/ sound_play_wav_path \/ SetRate \/ CopySamples \/ NoBuffer \/ WriteList \/ Reset \/ Start \/ DmaFetch
SoundSpec == SoundInit /\ [][SoundNext]_soundvars

----------------------------------------------------------------------------
\* Outside a call the engine is on descriptors and samples of the sound it
\* was started for last, from the first one up to LVI: none of an earlier,
\* longer sound, and not the old list with new samples.
EnginePlaysLast ==
  at = "idle" /\ eng.run =>
    /\ \A i \in eng.civ .. eng.lvi : bd[i].id = lastok
    /\ eng.civ <= eng.lvi /\ pcm.id = lastok

\* The samples a descriptor is written for lie inside the buffer that holds
\* them, also when the buffer was made for an earlier sound of another size.
\* The exception is the last descriptor: the mark in its length (ac97.c:228)
\* makes the engine go on for Field samples behind the sound.  Only the last
\* one has it, so that nothing foreign is heard inside the sound.
SamplesInBuffer ==
  /\ pcm.base + pcm.pages <= PoolSize
  /\ \A i \in Bd : at = "idle" /\ bd[i].id = lastok /\ lastok > 0 =>
       /\ bd[i].off + (bd[i].n % Field) + 1 <= pcm.pages * Page
       /\ bd[i].n >= Field => \A j \in Bd : j > i => bd[j].id # lastok

\* A call that fails, for want of memory or for a bad file, leaves the sound
\* that is playing alone but for its rate: list, engine and samples change
\* only in a call that goes on to start the engine.  The exception is the
\* rate: ac97.c:184-188 sets it before the allocation that can fail, so the
\* sound is heard at its own rate only while no later call has been made.
FailedPlayIsSilent ==
  at # "idle" /\ at' = "idle" /\ lastok' = lastok => pcm' = pcm /\ bd' = bd /\ eng' = eng
OwnRate == at = "idle" /\ eng.run /\ plays = lastok => dac = okrate

\* What is heard is the last sound that was started, with the exceptions
\* named above: what lies behind its end, and the rate after a failed call.
LastSoundPlays == [][EnginePlaysLast' /\ SamplesInBuffer' /\ OwnRate' /\ FailedPlayIsSilent]_soundvars
=============================================================================
