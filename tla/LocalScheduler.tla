---------------------------- MODULE LocalScheduler ----------------------------
(* plan_local_scheduler_request: what has to leave the GPU before a local  *)
(* runtime may be loaded.  A status gives the free video memory and, for   *)
(* every component, whether its model is resident, whether it is busy and  *)
(* how much video memory it uses.  The CPU image runtime, which uses no    *)
(* video memory, is left out.                                              *)
EXTENDS Integers, FiniteSets

Components == {"text_llm", "vision_llm", "visual_gpu", "training_runtime"}

(* LOCAL_SCHEDULER_RESERVED_VRAM_MIB, in GiB.  *)
Reserved == [c \in {"visual_gpu", "training_runtime"} |-> IF c = "visual_gpu" THEN 5 ELSE 9]

Residents(s) == {c \in Components : s.comp[c].resident}

SumOf(v) == v["text_llm"] + v["vision_llm"] + v["visual_gpu"] + v["training_runtime"]

VramOf(s, S) == SumOf([c \in Components |-> IF c \in S THEN s.comp[c].vram ELSE 0])

(* What must be unloaded whatever memory is free.  *)
MustLeave(c) ==
  CASE c = "text_llm" -> {}
    [] c = "vision_llm" -> {"visual_gpu", "training_runtime"}
    [] c = "visual_gpu" -> {"training_runtime"}
    [] c = "training_runtime" -> {"visual_gpu", "vision_llm", "text_llm"}

(* The rank of a component in the order in which it is unloaded for a      *)
(* runtime that needs memory.                                              *)
UnloadRank(c, o) ==
  CASE o = "vision_llm" -> 1
    [] o = "visual_gpu" /\ c = "training_runtime" -> 2
    [] o = "text_llm" -> 3
    [] OTHER -> 0

EarlierResidents(s, c, o) ==
  {p \in Residents(s) : 0 < UnloadRank(c, p) /\ UnloadRank(c, p) < UnloadRank(c, o)}

(* The victim o is reached before the planned free memory is enough.  *)
StillShort(s, c, o) == s.free + VramOf(s, EarlierResidents(s, c, o)) < Reserved[c]

(* _ensure_vram_for_runtime: the components that are given up for memory.  *)
Victims(s, c) ==
  IF c \notin DOMAIN Reserved THEN {}
  ELSE {o \in Residents(s) : UnloadRank(c, o) > 0 /\ StillShort(s, c, o)}

Affected(s, c) == (MustLeave(c) \cap Residents(s)) \cup Victims(s, c)

(* What the request has to wait for: busy components that it would unload, *)
(* and for the text model any image model.                                 *)
Waits(s, c) ==
  IF c = "text_llm"
  THEN {o \in Residents(s) : o = "visual_gpu" \/ (o = "training_runtime" /\ s.comp[o].busy)}
  ELSE {o \in Affected(s, c) : s.comp[o].busy}

MemoryMissing(s, c) == c \in DOMAIN Reserved /\ s.free + VramOf(s, Victims(s, c)) < Reserved[c]

(* plan_local_scheduler_request  *)
Plan(s, c) ==
  LET waits == Waits(s, c)
      affected == Affected(s, c)
  IN [decision |-> CASE waits # {} -> "waiting_for_idle"
                     [] MemoryMissing(s, c) -> "insufficient_resources"
                     [] affected # {} -> "needs_unload"
                     [] OTHER -> "allowed",
      unload |-> affected \ waits]
=============================================================================
