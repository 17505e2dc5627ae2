----------------------------- MODULE MonteCarlo -----------------------------
(***************************************************************************)
(* The simulation of monte_carlo_var (cpp/riskcore/src/riskcore.cpp):      *)
(* threads pull blocks of paths from an atomic counter, seed a generator   *)
(* for each, and write the P&L of its paths.  The thread that called       *)
(* starts the others, works like them, and joins them.                     *)
(***************************************************************************)
EXTENDS Integers

CONSTANTS
  Main,      \* the thread that called
  Others,    \* the pool it starts
  Paths,     \* cfg.paths
  Block,     \* kBlock
  Draw(_, _) \* Draw(b, k): P&L of the k-th path a generator seeded for block b draws

ASSUME SimAssumption ==
  /\ Main \notin Others
  /\ Paths \in Nat \ {0} /\ Block \in Nat \ {0}

Threads == {Main} \union Others
Blocks == (Paths + Block - 1) \div Block
AllPaths == 0..Paths - 1

ASSUME DrawAssumption == \A b \in 0..Blocks - 1, j \in 0..Block - 1 : Draw(b, j) \in Int

VARIABLES
  stage,       \* stage[t]: what thread t is doing
  next_block,  \* the atomic counter
  at,          \* at[t]: the path thread t simulates next
  end,         \* end[t]: behind the last path of its block
  rng,         \* rng[t]: the block its generator was seeded for, the paths drawn since
  pnl          \* P&L by path

simVars == <<stage, next_block, at, end, rng, pnl>>

Stages == {"none", "launch", "pull", "block", "left"}
-----------------------------------------------------------------------------
(* Mutated forms, none of which is used elsewhere.                         *)

Seeded_once(t, b) == IF rng[t].drawn > 0 THEN rng[t] ELSE [stream |-> b, drawn |-> 0]
EndOf_inclusive(b) == IF Paths < (b + 1) * Block + 1 THEN Paths ELSE (b + 1) * Block + 1
-----------------------------------------------------------------------------
SimInit ==
  /\ stage = [t \in Threads |-> IF t = Main THEN "launch" ELSE "none"]
  /\ next_block = 0
  /\ at = [t \in Threads |-> 0] /\ end = [t \in Threads |-> 0]
  /\ rng = [t \in Threads |-> [stream |-> 0, drawn |-> 0]]
  /\ pnl = [p \in AllPaths |-> 0]

\* pool.emplace_back(worker), then worker() by the caller itself.
Launch ==
  /\ stage[Main] = "launch"
  /\ \/ \E t \in Others : stage[t] = "none" /\ stage' = [stage EXCEPT ![t] = "pull"]
     \/ /\ \A t \in Others : stage[t] # "none"
        /\ stage' = [stage EXCEPT ![Main] = "pull"]
  /\ UNCHANGED <<next_block, at, end, rng, pnl>>

\* Xoshiro256 rng(cfg.seed ^ ...(b + 1)).
Seeded(t, b) == [stream |-> b, drawn |-> 0]

EndOf(b) == IF Paths < (b + 1) * Block THEN Paths ELSE (b + 1) * Block

\* next_block.fetch_add(1): a block of its own, or no block is left.
Pull(t) ==
  /\ stage[t] = "pull"
  /\ next_block' = next_block + 1
  /\ LET b == next_block
     IN IF b < Blocks
        THEN /\ stage' = [stage EXCEPT ![t] = "block"]
             /\ at' = [at EXCEPT ![t] = b * Block]
             /\ end' = [end EXCEPT ![t] = EndOf(b)]
             /\ rng' = [rng EXCEPT ![t] = Seeded(t, b)]
        ELSE stage' = [stage EXCEPT ![t] = "left"] /\ UNCHANGED <<at, end, rng>>
  /\ UNCHANGED pnl

\* One path; behind the last of the block the thread goes for the next block.
Simulate(t) ==
  /\ stage[t] = "block"
  /\ pnl' = [pnl EXCEPT ![at[t]] = Draw(rng[t].stream, rng[t].drawn)]
  /\ rng' = [rng EXCEPT ![t].drawn = @ + 1]
  /\ at' = [at EXCEPT ![t] = @ + 1]
  /\ stage' = [stage EXCEPT ![t] = IF at[t] + 1 < end[t] THEN "block" ELSE "pull"]
  /\ UNCHANGED <<next_block, end>>

\* pool.clear() returns when every thread has.
Joined == \A t \in Threads : stage[t] = "left"

SimStep == Launch \/ \E t \in Threads : Pull(t) \/ Simulate(t)
-----------------------------------------------------------------------------
SimTypeOK ==
  /\ stage \in [Threads -> Stages]
  /\ next_block \in Nat
  /\ at \in [Threads -> Nat] /\ end \in [Threads -> Nat]
  /\ rng \in [Threads -> [stream: Nat, drawn: Nat]]
  /\ pnl \in [AllPaths -> Int]

\* What one thread alone would simulate.
Alone == [p \in AllPaths |-> Draw(p \div Block, p % Block)]

\* Inductive: a thread in a block is within it and its generator stands where
\* that path is; no two threads are in one block; what is behind is as Alone.
Holds(t, b) ==
  /\ stage[t] = "block"
  /\ rng[t].stream = b /\ rng[t].drawn = at[t] - b * Block

Of(b) == {p \in AllPaths : b * Block <= p /\ p < (b + 1) * Block}

InItsBlock(t) ==
  LET b == rng[t].stream
  IN /\ Holds(t, b) /\ b < next_block /\ b < Blocks
     /\ b * Block <= at[t] /\ at[t] < end[t]
     /\ end[t] = EndOf(b)

SimInv ==
  /\ SimTypeOK
  /\ \A t \in Threads :
       /\ stage[t] = "block" => InItsBlock(t)
       /\ stage[t] = "left" => next_block >= Blocks
  /\ \A t, u \in Threads :
       t # u /\ stage[t] = "block" /\ stage[u] = "block" => rng[t].stream # rng[u].stream
  /\ \A b \in 0..Blocks - 1 : b < next_block =>
       \A p \in Of(b) :
         \/ pnl[p] = Draw(b, p - b * Block)
         \/ \E t \in Threads : Holds(t, b) /\ at[t] <= p
=============================================================================
