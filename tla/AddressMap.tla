----------------------------- MODULE AddressMap -----------------------------
(***************************************************************************)
(* Range, Mapping and MemoryMap: the address space of a process as a map   *)
(* from ranges to the resolvers of the files mapped there. The std::map is *)
(* a set of entries; its order is that of Range, in which two ranges are   *)
(* equivalent when neither lies before the other.                          *)
(***************************************************************************)
EXTENDS Naturals, FiniteSets

CONSTANT MaxAddress     \* UINT64_MAX

ASSUME MaxAddressAssumption == MaxAddress \in Nat \ {0}

Addresses == 0..MaxAddress

\* Mapping, with the resolver that MemoryMap keeps for it
Entry(start, end, pgoff, file) == [start |-> start, end |-> end, pgoff |-> pgoff, file |-> file]

\* Range(point): [point, point + 1), but empty for the highest address
Point(a) == Entry(a, IF a = MaxAddress THEN MaxAddress ELSE a + 1, 0, "none")

\* Range::operator<
Before(r, q) == r.end <= q.start

\* Range::in()
In(r, q) == r.start >= q.start /\ r.end <= q.end

\* std::map::find(): the entries that an address is equivalent to
find(map, a) == {e \in map : ~Before(e, Point(a)) /\ ~Before(Point(a), e)}

\* 2. in MemoryMap::emplace(): an entry around the new one is split. Both
\* parts keep the page offset of the whole.
Split(map, old, new) ==
    (map \ {old}) \cup {Entry(old.start, new.start, old.pgoff, old.file),
                        new,
                        Entry(new.end, old.end, old.pgoff, old.file)}

\* 4.1: the entry that holds the first address of the new one. What is left
\* of it is the empty range at its own start.
TruncateEnd(map, new) ==
    (map \ find(map, new.start)) \cup {[e EXCEPT !.end = e.start] : e \in find(map, new.start)}

\* 4.2: the entry that holds the address behind the new one
TruncateStart(map, new) ==
    (map \ find(map, new.end)) \cup {[e EXCEPT !.start = new.end] : e \in find(map, new.end)}

\* Without step 4.2: the order of std::map finds the entry that is there
\* equivalent to the new one and does not insert.
emplaceUntruncated(map, new) ==
    LET kept == {e \in map : ~In(e, new)}
        around == {e \in kept : In(new, e)}
        cut == TruncateEnd(kept, new)
    IN  IF around # {} THEN Split(kept, CHOOSE e \in around : TRUE, new)
        ELSE IF \E e \in cut : ~Before(e, new) /\ ~Before(new, e) THEN cut
        ELSE cut \cup {new}

\* MemoryMap::emplace()
emplace(map, new) ==
    LET kept == {e \in map : ~In(e, new)}
        around == {e \in kept : In(new, e)}
    IN  IF around # {} THEN Split(kept, CHOOSE e \in around : TRUE, new)
        ELSE TruncateStart(TruncateEnd(kept, new), new) \cup {new}
============================================================================
