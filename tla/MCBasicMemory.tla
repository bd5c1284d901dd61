---------------------------- MODULE MCBasicMemory ----------------------------
(* One string variable between two numbers, one array of strings.  The view *)
(* forgets which block is which, and so states that differ in that only are *)
(* one: blocks are told apart by the order in which they are pointed to.    *)
EXTENDS BasicMemory

MCNames == {1, 2, 3}
MCStringNames == {2}
MCArrays == {1}
MCStringArrays == {1}

RECURSIVE Flat(_, _)
Flat(ss, i) == IF i > Len(ss) THEN <<>> ELSE ss[i] \o Flat(ss, i + 1)
Field(f, old) == IF old \in DOMAIN f THEN <<f[old]>> ELSE <<>>
InOrder ==
  Flat([i \in DOMAIN stack |-> stack[i].args \o Field(stack[i], "old")], 1)
    \o Flat([j \in DOMAIN dimvariables |-> <<dimvariables[j].data>> \o dimvariables[j].str], 1)
    \o [i \in DOMAIN variables |-> variables[i].sval]
    \o [i \in DOMAIN files |-> files[i].ptr]
    \o <<vartable, dimtable, labels, curinputptr>>
View ==
  LET ps == InOrder
      first == [i \in DOMAIN ps |-> IF ps[i] = Null THEN 0 ELSE
                  CHOOSE j \in 1 .. i : ps[j] = ps[i] /\ \A k \in 1 .. j - 1 : ps[k] # ps[i]]
      holds == [i \in DOMAIN ps |-> IF ps[i] \in DOMAIN heap THEN heap[ps[i]] ELSE Null]
      frame(f) == <<f.fn, Len(f.args), Field(f, "of"), Field(f, "for"), Field(f, "array"),
                    Field(f, "i"), "at" \in DOMAIN f /\ f.at # NoAddress>>
  IN  <<outcome, Serrorflag, Cardinality(lost), first, holds,
        [i \in DOMAIN stack |-> frame(stack[i])],
        [i \in DOMAIN variables |-> variables[i].id],
        [j \in DOMAIN dimvariables |-> <<dimvariables[j].id, Len(dimvariables[j].str)>>],
        [i \in DOMAIN files |-> files[i].ftype]>>
=============================================================================
