------------------------------ MODULE Sampling ------------------------------
(***************************************************************************)
(* The hash of hashSample (src/controlplane/rules.go): fnv.New64, the      *)
(* 64-bit FNV-1 hash, of the key's bytes, reduced mod 1000000.            *)
(*                                                                         *)
(* TLC's integers are 32-bit, so a 64-bit value is kept as 8 limbs of 8   *)
(* bits, least significant first.  The limb products stay below 2^18 and  *)
(* Mod1e6's Horner steps below 2^28, inside TLC's 31-bit range.          *)
(* A string is the sequence of its bytes.                                  *)
(***************************************************************************)
EXTENDS Integers, SequencesExt, Bitwise

Limbs == 1..8
Byte == 0..255

\* The 64-bit offset basis 0xcbf29ce484222325
OffsetBasis == <<37, 35, 34, 132, 228, 156, 242, 203>>

\* Carries propagated from the least significant limb; the carry out of
\* the top limb is dropped (arithmetic mod 2^64)
Normalize(raw) ==
    LET RECURSIVE From(_, _)
        From(i, carry) ==
            IF i > 8 THEN <<>>
            ELSE <<(raw[i] + carry) % 256>> \o From(i + 1, (raw[i] + carry) \div 256)
    IN  From(1, 0)

\* h * 1099511628211 mod 2^64, the prime being 2^40 + 0x1b3: 0x1b3 times
\* every limb, plus h shifted up by five limbs
MulPrime(h) ==
    Normalize([i \in Limbs |-> h[i] * 435 + (IF i > 5 THEN h[i - 5] ELSE 0)])

XorByte(h, b) == [h EXCEPT ![1] = @ ^^ b]

\* Mutant: FNV-1a, the byte folded in before the multiplication
Fnv1aStep(h, b) == MulPrime(XorByte(h, b))

\* sum64.Write for one byte: multiply, then xor
Fnv1Step(h, b) == XorByte(MulPrime(h), b)

Fnv64(bytes) == FoldLeft(Fnv1Step, OffsetBasis, bytes)

\* i % 1000000 of a limb vector, by Horner's rule from the top limb
Mod1e6(h) ==
    LET RECURSIVE Below(_)
        Below(i) == IF i > 8 THEN 0 ELSE (Below(i + 1) * 256 + h[i]) % 1000000
    IN  Below(1)

\* bucket := h.Sum64() % 1000000
FnvBucket(bytes) == Mod1e6(Fnv64(bytes))

\* fmt.Sprintf("%v", n) of a natural: its decimal digits as ASCII bytes
RECURSIVE Decimal(_)
Decimal(n) == IF n < 10 THEN <<48 + n>> ELSE Decimal(n \div 10) \o <<48 + (n % 10)>>

=============================================================================
