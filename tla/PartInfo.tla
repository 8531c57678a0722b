------------------------------- MODULE PartInfo -------------------------------
(***************************************************************************)
(* The parts of a message that have arrived                                *)
(* (include/club/transport/part_info.h): disjoint intervals, each a pair   *)
(* of positions <<begin, end>>, of which the end does not belong to it.    *)
(* _info is a std::map, here a function from the begins to the ends.       *)
(***************************************************************************)
EXTENDS Integers, FiniteSetsExt

NoParts == <<>>

\* Mutant: only the next interval is looked at.
SanitizeNext(info, i) ==
  LET later == {j \in DOMAIN info : i < j}
      next  == Min(later)
      end   == IF later = {} \/ info[i] < next THEN info[i] ELSE Max({info[i], info[next]})
  IN  [j \in {j \in DOMAIN info : j <= i \/ end < info[j]} |-> IF j = i THEN end ELSE info[j]]

\* PartInfo::sanitize: the interval at i absorbs the ones after it that it touches,
\* and those that it touches then.  Its end is the first one at which it may stop.
sanitize(info, i) ==
  LET later == {j \in DOMAIN info : i < j}
      ends  == {e \in {info[i]} \cup {info[j] : j \in later} :
                  info[i] <= e /\ \A j \in later : j <= e => info[j] <= e}
      end   == Min(ends)
  IN  [j \in {j \in DOMAIN info : j <= i \/ end < j} |-> IF j = i THEN end ELSE info[j]]

\* emplace of an interval, where there is none that begins at i, or operator[].
With(info, i, end) ==
  [j \in DOMAIN info \cup {i} |-> IF j = i THEN end ELSE info[j]]

\* The intervals the loop of add_part goes through: the last one that begins below
\* `start', and the ones after it.
From(info, start) == {i \in DOMAIN info : \A j \in DOMAIN info : i < j => start <= j}

\* PartInfo::add_part: the first interval that touches the new one grows.
add_part(info, start, end) ==
  LET touched == {i \in From(info, start) : start <= info[i] /\ i <= end}
      i       == Min(touched)
      rest    == [j \in DOMAIN info \ {i} |-> info[j]]
  IN  IF end <= start THEN info
      ELSE IF touched = {} THEN With(info, start, end)
      ELSE IF i <= start THEN sanitize(With(info, i, Max({end, info[i]})), i)
      ELSE sanitize(With(rest, start, Max({end, info[i]})), start)
===============================================================================
