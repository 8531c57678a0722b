-------------------------- MODULE CyclicQueueObject --------------------------
(***************************************************************************)
(* A CyclicQueue and the iterator of a Cycle through it, step by step:     *)
(* positions in the list are named by the entries at them, and end() of    *)
(* the list by End.                                                        *)
(***************************************************************************)
EXTENDS CyclicQueue

CONSTANTS
  MaxEntries,   \* bound: entries that are inserted
  End           \* not an entry

ASSUME EndAssumption == MaxEntries \in Nat /\ End \notin 1..MaxEntries

VARIABLES
  messages,     \* _messages; entries are numbered as they are inserted
  inserted,     \* how many there were
  cycle,        \* is there a Cycle?
  mi,           \* the iterator's delegate
  cycle_end,    \* Cycle::_end
  before,       \* the list when the cycle began,
  gone,         \* how many of its entries the iterator has left,
  kept          \* and the ones of them that were not erased

queueVars == <<messages, inserted, cycle, mi, cycle_end, before, gone, kept>>

\* Where the list has `e', and what follows it.
FirstOf(list) == IF list = <<>> THEN End ELSE Head(list)
Index(list, e) == CHOOSE i \in DOMAIN list : list[i] = e
After(list, e) == IF e = list[Len(list)] THEN End ELSE list[Index(list, e) + 1]
Removed(list, e) ==
  LET i == Index(list, e) IN SubSeq(list, 1, i - 1) \o SubSeq(list, i + 1, Len(list))

QueueInit ==
  /\ messages = <<>> /\ inserted = 0
  /\ cycle = FALSE /\ mi = End /\ cycle_end = End
  /\ before = <<>> /\ gone = 0 /\ kept = <<>>

insert ==
  /\ ~cycle /\ inserted < MaxEntries
  /\ inserted' = inserted + 1
  /\ messages' = Append(messages, inserted')
  /\ UNCHANGED <<cycle, mi, cycle_end, before, gone, kept>>

\* cycle() and begin()
Begin ==
  /\ ~cycle
  /\ cycle' = TRUE /\ mi' = FirstOf(messages) /\ cycle_end' = End
  /\ before' = messages /\ gone' = 0 /\ kept' = <<>>
  /\ UNCHANGED <<messages, inserted>>

\* Mutant: the end of the cycle is not remembered.
AdvanceOn ==
  LET next == After(messages, mi) IN
  /\ cycle /\ mi # cycle_end
  /\ mi' = next
  /\ messages' = IF next = End THEN messages ELSE Append(Removed(messages, mi), mi)
  /\ UNCHANGED cycle_end
  /\ gone' = gone + 1 /\ kept' = Append(kept, mi)
  /\ UNCHANGED <<inserted, cycle, before>>

\* iterator::operator++
Advance ==
  LET next == After(messages, mi) IN
  /\ cycle /\ mi # cycle_end
  /\ mi' = next
  /\ messages' = IF next = End THEN messages ELSE Append(Removed(messages, mi), mi)
  /\ cycle_end' = IF next # End /\ cycle_end = End THEN mi ELSE cycle_end
  /\ gone' = gone + 1 /\ kept' = Append(kept, mi)
  /\ UNCHANGED <<inserted, cycle, before>>

\* iterator::erase
Erase ==
  /\ cycle /\ mi # cycle_end
  /\ mi' = After(messages, mi)
  /\ messages' = Removed(messages, mi)
  /\ gone' = gone + 1
  /\ UNCHANGED <<inserted, cycle, cycle_end, before, kept>>

\* The loop ends, at the end of the cycle or before.
Leave ==
  /\ cycle /\ cycle' = FALSE
  /\ mi' = End /\ cycle_end' = End /\ before' = <<>> /\ gone' = 0 /\ kept' = <<>>
  /\ UNCHANGED <<messages, inserted>>

QueueNext == insert \/ Begin \/ Advance \/ Erase \/ Leave

QueueSpec == QueueInit /\ [][QueueNext]_queueVars
-------------------------------------------------------------------------------
\* operator++, operator== and erase: a cycle visits every entry once, in the order
\* of the list, and has reached end() when it has left them all; stopped anywhere,
\* it leaves the list as TransmitQueue::encode_payload is modelled to leave it.
VisitsOnce ==
  cycle =>
    /\ gone <= Len(before)
    /\ mi = cycle_end <=> gone = Len(before)
    /\ gone < Len(before) => mi = before[gone + 1]
    /\ messages = Cycled(before, gone, kept)
===============================================================================
