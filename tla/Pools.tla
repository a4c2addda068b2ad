------------------------------- MODULE Pools -------------------------------
(***************************************************************************)
(* Stacks (kernel/stack.c) and memory slabs (kernel/mem_slab.c): the item  *)
(* that came last is the first to go.  A stack starts empty and has room   *)
(* for max_entries items; a slab starts with all its blocks on the free    *)
(* list.                                                                   *)
(***************************************************************************)
EXTENDS Blocking, FiniteSets

CONSTANT max_entries

ASSUME PoolsAssumption == max_entries \in Nat \ {0} /\ IsFiniteSet(Items)

(***************************************************************************)
(* Stacks                                                                  *)
(***************************************************************************)
Stack == [kind |-> "stack", entries |-> <<>>]

\* k_stack_push(), with room on the stack.
StackPush(x) ==
  /\ x \in Outside(obj.entries)
  /\ Len(obj.entries) < max_entries
  /\ \/ ServeFirst(x) /\ UNCHANGED obj
     \/ /\ Waiters = <<>>
        /\ obj' = [obj EXCEPT !.entries = Append(@, x)]
        /\ UNCHANGED <<schedVars, swap_data>>
  /\ UNCHANGED call

\* k_stack_pop()
StackPop ==
  /\ obj.entries # <<>>
  /\ obj' = [obj EXCEPT !.entries = SubSeq(@, 1, Len(@) - 1)]
  /\ UNCHANGED <<schedVars, call, swap_data>>

StackPopWait(t, timed) ==
  /\ obj.entries = <<>>
  /\ Wait(t, "pop", NONE, timed)
  /\ UNCHANGED obj

StackNext ==
  /\ obj.kind = "stack"
  /\ \/ \E x \in Items : StackPush(x)
     \/ StackPop
     \/ \E t \in Threads, timed \in BOOLEAN : StackPopWait(t, timed)

(***************************************************************************)
(* Memory slabs                                                            *)
(***************************************************************************)
\* create_free_list() for the blocks in the order s.
Slab(s) == [kind |-> "slab", free_list |-> s, num_used |-> 0]

\* k_mem_slab_alloc(), with a free block.
SlabAlloc ==
  /\ obj.free_list # <<>>
  /\ obj' = [obj EXCEPT !.free_list = Tail(@), !.num_used = @ + 1]
  /\ UNCHANGED <<schedVars, call, swap_data>>

SlabAllocWait(t, timed) ==
  /\ obj.free_list = <<>>
  /\ Wait(t, "alloc", NONE, timed)
  /\ UNCHANGED obj

\* k_mem_slab_free()
SlabFree(x) ==
  /\ x \in Outside(obj.free_list)
  /\ \/ obj.free_list = <<>> /\ ServeFirst(x) /\ UNCHANGED obj
     \/ /\ obj.free_list # <<>> \/ Waiters = <<>>
        /\ obj' = [obj EXCEPT !.free_list = <<x>> \o @, !.num_used = @ - 1]
        /\ UNCHANGED <<schedVars, swap_data>>
  /\ UNCHANGED call

SlabNext ==
  /\ obj.kind = "slab"
  /\ \/ SlabAlloc
     \/ \E x \in Items : SlabFree(x)
     \/ \E t \in Threads, timed \in BOOLEAN : SlabAllocWait(t, timed)

(***************************************************************************)
(* Properties                                                              *)
(***************************************************************************)
\* Threads wait only while there is nothing to be had, and a slab's count of
\* used blocks is that of the blocks which are not free.
PoolsInv ==
  /\ obj.kind = "stack" =>
       Len(obj.entries) <= max_entries /\ (Waiters = <<>> \/ obj.entries = <<>>)
  /\ obj.kind = "slab" =>
       /\ Waiters = <<>> \/ obj.free_list = <<>>
       /\ obj.num_used = Cardinality(Items) - Len(obj.free_list)
=============================================================================
