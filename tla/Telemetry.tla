------------------------------- MODULE Telemetry -------------------------------
(***************************************************************************)
(* The two readings the tooltip shows that can be wrong or missing: the    *)
(* dGPU's temperature and power, published by a thread of its own from two *)
(* sources of which one may wake the GPU, and the fan speeds, of which one *)
(* zone in a few reads as zero.                                            *)
(*                                                                         *)
(* A temperature is "shown" or not, its value left out.  kmt_failures and  *)
(* awake_polls stop at the bound they are compared with.                   *)
(***************************************************************************)
EXTENDS Naturals

CONSTANTS
  GPU_MAX_CONSECUTIVE_FAILURES,   \* failures in a row before a source is given up
  SMI_AWAKE_POLLS,                \* polls the GPU is seen awake before nvidia-smi may run
  Flukes                          \* readings in which both fans are wrong

ASSUME TelemetryAssumption ==
  /\ GPU_MAX_CONSECUTIVE_FAILURES \in Nat \ {0}
  /\ SMI_AWAKE_POLLS \in Nat \ {0}
  /\ Flukes \in 0 .. 1

Max == GPU_MAX_CONSECUTIVE_FAILURES

VARIABLES
  \* the GPU monitor
  gpu_step, asleep, kmt_temp, awake_polls, kmt_failures, smi_failures, smi_dropped,
  temp_shown, watts_shown,
  silent,                 \* rounds in a row in which neither source answered, both asked or given up
  \* the fans
  stopped,                \* whether they really are
  published, stop_pending, fan_paused,
  sampled,                \* the last two samples without a lone zero: what they said
  truth,                  \* and whether the fans were stopped
  flukes

gpu_counts == <<awake_polls, kmt_failures, smi_failures, smi_dropped>>
gpu == <<gpu_step, asleep, kmt_temp, gpu_counts, temp_shown, watts_shown, silent>>
fans == <<stopped, published, stop_pending, fan_paused, sampled, truth, flukes>>
telemetry_vars == <<gpu, fans>>

FanReadings == {"none", "running", "stopped"}

TelemetryTypeOK ==
  /\ gpu_step \in {"look", "sample", "end", "off"}
  /\ asleep \in BOOLEAN /\ kmt_temp \in BOOLEAN
  /\ awake_polls \in 0 .. SMI_AWAKE_POLLS
  /\ kmt_failures \in 0 .. Max /\ smi_failures \in 0 .. Max
  /\ smi_dropped \in BOOLEAN
  /\ temp_shown \in BOOLEAN /\ watts_shown \in BOOLEAN
  /\ silent \in Nat
  /\ stopped \in BOOLEAN
  /\ published \in FanReadings
  /\ stop_pending \in BOOLEAN /\ fan_paused \in BOOLEAN
  /\ sampled \in [before : FanReadings, last : FanReadings]
  /\ truth \in [before : BOOLEAN, last : BOOLEAN]
  /\ flukes \in 0 .. Flukes

TelemetryInit ==
  /\ gpu_step = "look" /\ asleep = FALSE /\ kmt_temp = FALSE
  /\ awake_polls = 0 /\ kmt_failures = 0 /\ smi_failures = 0 /\ smi_dropped = FALSE
  /\ temp_shown = FALSE /\ watts_shown = FALSE /\ silent = 0
  /\ stopped \in BOOLEAN
  /\ published = "none" /\ stop_pending = FALSE /\ fan_paused = FALSE
  /\ sampled = [before |-> "none", last |-> "none"]
  /\ truth = [before |-> FALSE, last |-> FALSE]
  /\ flukes = Flukes

Upto(n, bound) == IF n < bound THEN n + 1 ELSE bound

-----------------------------------------------------------------------------
(* A round of the GPU monitor.                                              *)

\* Mutant: the temperature stays while the GPU is powered down.
KeepsTemperature == temp_shown' = temp_shown

Blanks == temp_shown' = FALSE

\* Asleep, neither source is asked.
LooksAsleep ==
  /\ gpu_step = "look"
  /\ asleep' = TRUE /\ awake_polls' = 0
  /\ Blanks /\ watts_shown' = FALSE
  /\ silent' = 0
  /\ UNCHANGED <<gpu_step, kmt_temp, kmt_failures, smi_failures, smi_dropped, fans>>

\* Awake, or its state unreadable; then the graphics kernel is asked.
LooksAwake(answers) ==
  /\ gpu_step = "look"
  /\ gpu_step' = "sample" /\ asleep' = FALSE
  /\ awake_polls' = Upto(awake_polls, SMI_AWAKE_POLLS)
  /\ kmt_temp' = answers
  /\ kmt_failures' = IF answers THEN 0 ELSE Upto(kmt_failures, Max)
  /\ temp_shown' = (temp_shown \/ answers)
  /\ silent' = IF answers THEN 0 ELSE silent
  /\ UNCHANGED <<smi_failures, smi_dropped, watts_shown, fans>>

smi_allowed == awake_polls >= SMI_AWAKE_POLLS

SampleOk(watts) ==
  /\ gpu_step = "sample" /\ ~smi_dropped /\ smi_allowed
  /\ gpu_step' = "end"
  /\ smi_failures' = 0
  /\ temp_shown' = TRUE /\ watts_shown' = watts
  /\ silent' = 0
  /\ UNCHANGED <<asleep, kmt_temp, awake_polls, kmt_failures, smi_dropped, fans>>

\* What was shown stays, but for the power once nvidia-smi is given up.
SampleFails ==
  /\ gpu_step = "sample" /\ ~smi_dropped /\ smi_allowed
  /\ gpu_step' = "end"
  /\ smi_failures' = smi_failures + 1
  /\ smi_dropped' = (smi_failures + 1 >= Max)
  /\ watts_shown' = (watts_shown /\ smi_failures + 1 < Max)
  /\ silent' = IF kmt_temp THEN 0 ELSE silent + 1
  /\ UNCHANGED <<asleep, kmt_temp, awake_polls, kmt_failures, temp_shown, fans>>

\* Given up, too early after a wake, not due with a temperature and a power sample at hand,
\* or the GPU has gone to sleep since the look.
NoSample ==
  /\ gpu_step = "sample"
  /\ gpu_step' = "end"
  /\ silent' = IF smi_dropped /\ ~kmt_temp THEN silent + 1 ELSE silent
  /\ UNCHANGED <<asleep, kmt_temp, gpu_counts, temp_shown, watts_shown, fans>>

\* The other source must have been out for as long.
BothOut == smi_dropped /\ kmt_failures >= Max

GoesOn ==
  /\ gpu_step = "end" /\ ~BothOut
  /\ gpu_step' = "look"
  /\ UNCHANGED <<asleep, kmt_temp, gpu_counts, temp_shown, watts_shown, silent, fans>>

Ends ==
  /\ gpu_step = "end" /\ BothOut
  /\ gpu_step' = "off"
  /\ temp_shown' = FALSE /\ watts_shown' = FALSE
  /\ UNCHANGED <<asleep, kmt_temp, gpu_counts, silent, fans>>

-----------------------------------------------------------------------------
(* The fans.                                                                *)

SpinUpOrDown == stopped' = ~stopped /\ UNCHANGED <<gpu, published, stop_pending, fan_paused,
                                                   sampled, truth, flukes>>

Take(sample) ==
  /\ sampled' = [before |-> sampled.last, last |-> sample]
  /\ truth' = [before |-> truth.last, last |-> stopped]

accept(sample) ==
  /\ published' = IF sample = "stopped" THEN IF stop_pending THEN "stopped" ELSE published
                  ELSE "running"
  /\ stop_pending' = (sample = "stopped")
  /\ Take(sample)

Really == IF stopped THEN "stopped" ELSE "running"

\* A good reading ends the pause of a failed one.
FansRead ==
  /\ accept(Really)
  /\ fan_paused' = FALSE
  /\ UNCHANGED <<gpu, stopped, flukes>>

FansMisread ==
  /\ flukes > 0 /\ flukes' = flukes - 1
  /\ accept(IF stopped THEN "running" ELSE "stopped")
  /\ fan_paused' = FALSE
  /\ UNCHANGED <<gpu, stopped>>

\* Mutant: it ends a pending stop.
LoneZeroForgets == stop_pending' = FALSE /\ UNCHANGED published

LoneZeroTells == UNCHANGED <<published, stop_pending>>

\* One zone is wrong, in either direction; it says nothing, not even of a stop pending.
FansLoneZero ==
  /\ LoneZeroTells
  /\ fan_paused' = FALSE
  /\ UNCHANGED <<gpu, stopped, sampled, truth, flukes>>

FansFail ==
  /\ ~fan_paused /\ fan_paused' = TRUE
  /\ UNCHANGED <<gpu, stopped, published, stop_pending, sampled, truth, flukes>>

TelemetryNext ==
  \/ LooksAsleep \/ \E answers \in BOOLEAN : LooksAwake(answers)
  \/ \E watts \in BOOLEAN : SampleOk(watts)
  \/ SampleFails \/ NoSample \/ GoesOn \/ Ends
  \/ SpinUpOrDown \/ FansRead \/ FansMisread \/ FansLoneZero \/ FansFail

-----------------------------------------------------------------------------

\* A temperature is shown only while the GPU was last seen awake, and not once both sources
\* have been out for as long as each is given (spawn_gpu_telemetry_monitor).
GpuShown ==
  temp_shown => ~asleep /\ (gpu_step = "look" => silent < Max)

\* What is shown of the fans follows the last reading that can be true; that they are
\* stopped takes two in a row, of which one was true, and no more (FanRpmFilter).
FansShown ==
  /\ published = "stopped" => truth.before \/ truth.last
  /\ sampled.last = "running" => published = "running"
  /\ sampled = [before |-> "stopped", last |-> "stopped"] => published = "stopped"
===============================================================================
