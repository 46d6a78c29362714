---------------------------- MODULE MCGpuResidency ----------------------------
(* An 12 GiB card: the two models fit, ComfyUI needs the vision model's    *)
(* room, a training everything.                                            *)
EXTENDS GpuResidency
MCVramUse == [c \in Components |->
  CASE c = "text_llm" -> 4 [] c = "vision_llm" -> 4 [] c = "visual_gpu" -> 5 [] OTHER -> 8]
=============================================================================
