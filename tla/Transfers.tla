----------------------------- MODULE Transfers ------------------------------
(***************************************************************************)
(* The handlers of m68k_in.c that move data, change the flow of control or *)
(* the status register.                                                    *)
(***************************************************************************)
EXTENDS Instructions, FiniteSets

Moved(m, i) ==
    LET s == Operand(m, i.src, i.n)
    IN  [Put(s.m, i, s.v) EXCEPT !.ccr = Tested(s.v, @, i.n)]

move_8(m, i) == Moved(m, i)
move_16(m, i) == Moved(m, i)
move_32(m, i) == Moved(m, i)

\* a plausible slip: MOVEA as a MOVE that sets the condition codes
moveaTests(m, i) ==
    LET s == Operand(m, i.src, i.n)
    IN  [s.m EXCEPT !.da[8 + i.dst.r] = Long(MAKE_INT(s.v, i.n)),
                    !.ccr = Tested(s.v, @, i.n)]

movea(m, i) ==
    LET s == Operand(m, i.src, i.n)
    IN  [s.m EXCEPT !.da[8 + i.dst.r] = Long(MAKE_INT(s.v, i.n))]

moveq(m, i) ==
    LET r == Long(MAKE_INT(i.src.d, 1))
    IN  [m EXCEPT !.da[i.dst.r] = r, !.ccr = Tested(r, @, 4)]

\* register numbers of the three kinds: data, address, one of each
NumberOf(e) == IF e.mode = "a" THEN 8 + e.r ELSE e.r

exg(m, i) ==
    LET x == NumberOf(i.src)
        y == NumberOf(i.dst)
    IN  [m EXCEPT !.da[x] = m.da[y], !.da[y] = m.da[x]]

lea(m, i) == [Used(m, i.src, 4) EXCEPT !.da[8 + i.dst.r] = EA(m, i.src, 4)]

pea(m, i) == push(Used(m, i.src, 4), 4, EA(m, i.src, 4))

\* Several values v are stored at the addresses at, one after the other.  No two
\* of the places overlap, so each byte is of one value.
WriteAll(m, n, at, v) ==
    [m EXCEPT
        !.ram = [x \in DOMAIN @ |->
                    IF \E k \in DOMAIN at : x \in Place(at[k], n)
                    THEN LET k == CHOOSE k \in DOMAIN at : x \in Place(at[k], n)
                         IN  ByteOf(v[k], ADDRESS_68K(at[k]) + n - 1 - x)
                    ELSE @[x]],
        !.run = @ /\ \A k \in DOMAIN at : Place(at[k], n) \subseteq DOMAIN m.ram]

\* and read: reading changes nothing but that it may halt
ReadAll(m, n, at) ==
    [m EXCEPT !.run =
        @ /\ \A k \in DOMAIN at : Place(at[k], n) \subseteq DOMAIN m.ram \cup DOMAIN Rom]

\* how many registers of the list come before register k
Before(list, k) == Cardinality({j \in list : j < k})

\* The list of registers comes before the mode's own words.  Onto -(An) the
\* highest register goes first, its bit being the lowest of the list, and An
\* is stored as it was.
movem_re(m, i) ==
    LET b == Skip(m, 2)
        an == 8 + i.dst.r
        down == [k \in i.list |-> Long(m.da[an] - i.n * (Before(i.list, k) + 1))]
        up == [k \in i.list |-> Long(EA(b, i.dst, i.n) + i.n * Before(i.list, k))]
    IN  IF i.dst.mode = "pd"
        THEN [WriteAll(b, i.n, down, [k \in i.list |-> m.da[15 - k]])
                 EXCEPT !.da[an] = Long(@ - i.n * Cardinality(i.list))]
        ELSE WriteAll(Used(b, i.dst, i.n), i.n, up, [k \in i.list |-> m.da[k]])

\* Words are sign-extended; a loaded An loses to the stepped one.
movem_er(m, i) ==
    LET b == Skip(m, 2)
        up == i.src.mode = "pi"
        an == 8 + i.src.r
        start == EA(b, i.src, i.n)
        at == [k \in i.list |-> Long(start + i.n * Before(i.list, k))]
        read == ReadAll(IF up THEN b ELSE Used(b, i.src, i.n), i.n, at)
    IN  [read EXCEPT
            !.da = [k \in DOMAIN @ |->
                       IF up /\ k = an THEN Long(start + i.n * Cardinality(i.list))
                       ELSE IF k \in i.list
                       THEN Long(MAKE_INT(Value(m, ADDRESS_68K(at[k]), i.n), i.n))
                       ELSE @[k]]]

\* every second byte, the highest first
movep_re(m, i) ==
    LET start == EA(m, i.dst, i.n)
        src == m.da[i.src.r]
    IN  WriteAll(Used(m, i.dst, i.n), 1,
                 [k \in 0 .. i.n - 1 |-> Long(start + 2 * k)],
                 [k \in 0 .. i.n - 1 |-> ByteOf(src, i.n - 1 - k)])

movep_er(m, i) ==
    LET at == [k \in 0 .. i.n - 1 |-> Long(EA(m, i.src, i.n) + 2 * k)]
        Part(k) == Byte(m, ADDRESS_68K(at[k]))
        word == Part(0) * 2^Bits(1) + Part(1)
        r == IF i.n = 2 THEN word
             ELSE word * 2^Bits(2) + Part(2) * 2^Bits(1) + Part(3)
    IN  [ReadAll(Used(m, i.src, i.n), 1, at) EXCEPT !.da[i.dst.r] = Upper(@, i.n) + r]

\* A7 itself is pushed as it is after the push
link(m, i) ==
    LET an == 8 + i.dst.r
        size == MAKE_INT(i.src.d, 2)
        sp == Long(m.da[A7] - 4)
        b == push(m, 4, IF an = A7 THEN sp ELSE m.da[an])
        framed == IF an = A7 THEN b ELSE [b EXCEPT !.da[an] = sp]
    IN  Skip([framed EXCEPT !.da[A7] = Long(sp + size)], 2)

unlk(m, i) ==
    LET an == 8 + i.dst.r
        o == pull([m EXCEPT !.da[A7] = m.da[an]], 4)
        top == Read(m, m.da[A7], 4)
    IN  IF an = A7 THEN [top.m EXCEPT !.da[A7] = top.v]
        ELSE [o.m EXCEPT !.da[an] = o.v]

-----------------------------------------------------------------------------
\* A displacement in the instruction word counts from behind it, one in the
\* word that follows from that word.

bra(m, i) == branch(m, MAKE_INT(i.src.d, i.n))

\* a plausible slip: a branch not taken runs into its displacement
stopsShort(m, i) == IF Holds(i.how, m.ccr) THEN bra(m, i) ELSE m

bcc(m, i) ==
    IF Holds(i.how, m.ccr) THEN bra(m, i)
    ELSE IF i.n = 2 THEN Skip(m, 2) ELSE m

bsr(m, i) ==
    LET b == IF i.n = 2 THEN Skip(m, 2) ELSE m
    IN  [push(b, 4, b.pc) EXCEPT !.pc = bra(m, i).pc]

\* dbt and dbf are dbcc with the conditions that are constant
dbcc(m, i) ==
    LET count == Low(m.da[i.dst.r] - 1, 2)
        b == [m EXCEPT !.da[i.dst.r] = Upper(@, 2) + count]
    IN  IF Holds(i.how, m.ccr) THEN Skip(m, 2)
        ELSE IF count # Low(-1, 2) THEN branch(b, MAKE_INT(i.src.d, 2))
        ELSE Skip(b, 2)

jmp(m, i) == jump(m, EA(m, i.src, 4))

jsr(m, i) ==
    LET b == Used(m, i.src, 4)
    IN  jump(push(b, 4, b.pc), EA(m, i.src, 4))

rts(m) == LET o == pull(m, 4) IN jump(o.m, o.v)

rtr(m) ==
    LET f == pull(m, 2)
        o == pull(f.m, 4)
    IN  [jump(o.m, o.v) EXCEPT !.ccr = set_ccr(f.v)]

rte(m) ==
    LET f == pull(m, 2)
        o == pull(f.m, 4)
    IN  IF m.s THEN set_sr(jump(o.m, o.v), f.v) ELSE exception_privilege_violation(m)

nop(m) == m

trap(m, i, answer) == exception_trapN(m, EXCEPTION_TRAP_BASE + i.src.d, answer)

trapv(m) == IF m.ccr.V THEN exception_trap(m, EXCEPTION_TRAPV) ELSE m

-----------------------------------------------------------------------------
\* the condition codes and the status register as operands

toc(m, i, F(_, _)) ==
    LET s == Operand(m, i.src, 2)
    IN  [s.m EXCEPT !.ccr = set_ccr(F(get_ccr(m.ccr), s.v))]

tos(m, i, F(_, _)) ==
    LET s == Operand(m, i.src, 2)
    IN  IF m.s THEN set_sr(s.m, F(get_sr(m), s.v)) ELSE exception_privilege_violation(m)

Second(x, y) == y

andi_toc(m, i) == toc(m, i, And)
ori_toc(m, i) == toc(m, i, Or)
eori_toc(m, i) == toc(m, i, Xor)
move_toc(m, i) == toc(m, i, Second)

\* a plausible slip: the mode not looked at
anyMode(m, i) ==
    LET s == Operand(m, i.src, 2) IN set_sr(s.m, s.v)

andi_tos(m, i) == tos(m, i, And)
ori_tos(m, i) == tos(m, i, Or)
eori_tos(m, i) == tos(m, i, Xor)
move_tos(m, i) == tos(m, i, Second)

\* on the 68000 any program may read the status register
move_frs(m, i) == Put(m, i, get_sr(m))

move_fru(m, i) ==
    IF m.s THEN [m EXCEPT !.da[8 + i.dst.r] = m.banked]
    ELSE exception_privilege_violation(m)

move_tou(m, i) ==
    IF m.s THEN [m EXCEPT !.banked = m.da[8 + i.src.r]]
    ELSE exception_privilege_violation(m)

stop(m, i) ==
    IF m.s THEN set_sr([Skip(m, 2) EXCEPT !.stopped = TRUE], Low(i.src.d, 2))
    ELSE exception_privilege_violation(m)

\* nothing is connected to the line
reset(m) == IF m.s THEN m ELSE exception_privilege_violation(m)

=============================================================================
