---------------------------- MODULE CoherentMemory ----------------------------
(***************************************************************************)
(* What the guest may expect of video memory when it shares it properly:   *)
(* one memory, whose accesses take effect one at a time.  The CPU has one  *)
(* access outstanding and the GPU one job; each takes effect once, between *)
(* its issue and its completion, and nothing else changes the memory.      *)
(***************************************************************************)
EXTENDS Naturals

CONSTANTS Cells, Values

VARIABLES
  mem,   \* the memory
  out,   \* what the last read returned
  cpu,   \* the CPU's access, or Idle
  gpu    \* the GPU's job, or Idle

memVars == <<mem, out, cpu, gpu>>

Idle == [op |-> "idle"]

Init ==
  /\ mem \in [Cells -> Values] /\ out = [c \in {} |-> 0]
  /\ cpu = Idle /\ gpu = Idle

Fill(S, v) == mem' = [c \in Cells |-> IF c \in S THEN v ELSE mem[c]]

Read(S) == mem' = mem /\ out' = [c \in S |-> mem[c]]

Issue ==
  /\ \/ cpu = Idle /\ cpu'.op \in {"read", "write"} /\ gpu' = gpu
     \/ gpu = Idle /\ gpu'.op \in {"draw", "texture", "blit", "flip"} /\ cpu' = cpu
  /\ UNCHANGED <<mem, out>>

CpuDone ==
  /\ \/ cpu.op = "read" /\ Read({cpu.cell})
     \/ cpu.op = "write" /\ Fill({cpu.cell}, cpu.value) /\ out' = out
  /\ cpu' = Idle /\ gpu' = gpu

(* A draw paints the targets it writes; a blit copies one cell. *)
GpuDone ==
  /\ \/ gpu.op = "draw" /\ Fill(gpu.cells, gpu.value) /\ out' = out
     \/ gpu.op = "texture" /\ Read(gpu.cells)
     \/ gpu.op = "blit" /\ Fill({gpu.to}, mem[gpu.from]) /\ out' = out
     \/ gpu.op = "flip" /\ UNCHANGED <<mem, out>>
  /\ gpu' = Idle /\ cpu' = cpu

(* A draw whose surfaces were flushed in the middle of it is dropped. *)
GpuDropped ==
  /\ gpu.op = "draw" /\ gpu' = Idle
  /\ UNCHANGED <<mem, out, cpu>>

Next == Issue \/ CpuDone \/ GpuDone \/ GpuDropped

Spec == Init /\ [][Next]_memVars

=============================================================================
