--------------------------- MODULE RangeMapper_proofs --------------------------
(***************************************************************************)
(* Proofs about RangeMapper<int> for every config configure() accepts and *)
(* every int input: the types, that the non-inverted map is monotone and  *)
(* keeps each input on its side of the output center, and that an         *)
(* inverted map centered at 0 behaves as the class comment describes.     *)
(* Every property but TypeOK is about the mapper alone, so each follows   *)
(* from a lemma about configure(c) and map(m, v) for all c and v, and     *)
(* from TypeOK, which says the mapper is configure(c) for some c.         *)
(***************************************************************************)
EXTENDS RangeMapper, TLAPS

-----------------------------------------------------------------------------
(* Lemmas about C++ integer division, Quot.                                *)

\* The quotient of ints by a non-zero int is an int.
LEMMA QuotType ==
  ASSUME NEW a \in Int, NEW b \in Int, b # 0
  PROVE  Quot(a, b) \in Int
BY DEF Quot, abs

\* Dividing by a positive divisor keeps the sign of the dividend.
LEMMA QuotSign ==
  ASSUME NEW a \in Int, NEW b \in Int, b > 0
  PROVE  /\ a >= 0 => Quot(a, b) >= 0
         /\ a <= 0 => Quot(a, b) <= 0
BY DEF Quot, abs

\* Zero divided by anything non-zero is zero.
LEMMA QuotZero ==
  ASSUME NEW b \in Int, b # 0
  PROVE  Quot(0, b) = 0
BY DEF Quot, abs

\* \div by a positive divisor is monotone on the naturals.
LEMMA DivMono ==
  ASSUME NEW x \in Nat, NEW y \in Nat, NEW b \in Nat, b > 0, x <= y
  PROVE  x \div b <= y \div b
OBVIOUS

\* Dividing by a positive divisor is monotone in the dividend, on either
\* side of zero.
LEMMA QuotMono ==
  ASSUME NEW a1 \in Int, NEW a2 \in Int, NEW b \in Int, b > 0, a1 <= a2
  PROVE  Quot(a1, b) <= Quot(a2, b)
<1>1. CASE a1 >= 0
  BY <1>1 DEF Quot, abs
<1>2. CASE a2 < 0
  <2>1. Quot(a1, b) = -((-a1) \div b) /\ Quot(a2, b) = -((-a2) \div b)
    BY <1>2 DEF Quot, abs
  <2>2. (-a2) \div b <= (-a1) \div b
    BY <1>2, DivMono
  <2> QED
    BY <2>1, <2>2
<1>3. CASE a1 < 0 /\ a2 >= 0
  <2>1. Quot(a1, b) <= 0
    BY <1>3, QuotSign
  <2>2. Quot(a2, b) >= 0
    BY <1>3, QuotSign
  <2>3. Quot(a1, b) \in Int /\ Quot(a2, b) \in Int
    BY QuotType
  <2> QED
    BY <2>1, <2>2, <2>3
<1> QED
  BY <1>1, <1>2, <1>3

-----------------------------------------------------------------------------
(* What configure() leaves in the members.                                 *)

\* The members of a configured mapper: ints, a positive output range, and
\* the two divisors computed from them.
Configured(m) ==
  /\ m.center_ \in Int /\ m.deadband_ \in Int
  /\ m.minimum_ \in Int /\ m.maximum_ \in Int
  /\ m.output_center_ \in Int /\ m.output_range_ \in Int
  /\ m.output_min_ \in Int /\ m.output_max_ \in Int
  /\ m.invert_input_ \in BOOLEAN
  /\ m.minimum_ <= m.maximum_
  /\ m.output_range_ > 0
  /\ m.pos_range_ = Quot(m.maximum_ - m.center_, m.output_range_)
  /\ m.neg_range_ = Quot(abs(m.minimum_ - m.center_), m.output_range_)
  /\ m.pos_range_ \in Int /\ m.neg_range_ \in Int

\* configure() of an accepted config gives a configured mapper.
LEMMA ConfigureConfigured ==
  ASSUME NEW c \in Configs
  PROVE  Configured(configure(c))
<1> DEFINE range == abs(c.output_range)
<1>0. /\ c.invert_input \in BOOLEAN
      /\ {c.center, c.deadband, c.minimum, c.maximum, c.output_center,
          c.output_range} \subseteq Int
      /\ c.output_range # 0
      /\ c.minimum <= c.maximum
  BY ConfigsAssumption
<1>1. /\ c.invert_input \in BOOLEAN
      /\ c.center \in Int /\ c.deadband \in Int
      /\ c.minimum \in Int /\ c.maximum \in Int
      /\ c.output_center \in Int /\ c.output_range \in Int
      /\ c.output_range # 0
      /\ c.minimum <= c.maximum
  BY <1>0, Zenon
<1>2. range \in Int /\ range > 0
  BY <1>1 DEF abs
<1>3. abs(c.minimum - c.center) \in Int
  BY <1>1 DEF abs
<1>4. /\ Quot(c.maximum - c.center, range) \in Int
      /\ Quot(abs(c.minimum - c.center), range) \in Int
  BY <1>1, <1>2, <1>3, QuotType
<1> QED
  BY <1>1, <1>2, <1>4 DEF Configured, configure

\* std::clamp with lo <= hi lies in lo .. hi.
LEMMA ClampRange ==
  ASSUME NEW lo \in Int, NEW hi \in Int, lo <= hi, NEW v \in Int
  PROVE  clamp(v, lo, hi) \in lo .. hi
BY DEF clamp

\* std::clamp is monotone.
LEMMA ClampMono ==
  ASSUME NEW lo \in Int, NEW hi \in Int, lo <= hi,
         NEW v \in Int, NEW w \in Int, v <= w
  PROVE  clamp(v, lo, hi) <= clamp(w, lo, hi)
BY DEF clamp

\* The lower divisor is never negative, and the upper one not when the
\* maximum is at or above the center.
LEMMA DivisorSigns ==
  ASSUME NEW m, Configured(m)
  PROVE  /\ m.neg_range_ >= 0
         /\ m.maximum_ >= m.center_ => m.pos_range_ >= 0
<1>1. abs(m.minimum_ - m.center_) \in Int /\ abs(m.minimum_ - m.center_) >= 0
  BY DEF Configured, abs
<1>2. m.neg_range_ >= 0
  BY <1>1, QuotSign DEF Configured
<1>3. m.maximum_ >= m.center_ => m.pos_range_ >= 0
  BY QuotSign DEF Configured
<1> QED
  BY <1>2, <1>3

\* In a well scaled mapper both divisors are positive.
LEMMA WellScaledDivisors ==
  ASSUME NEW m, Configured(m), WellScaled(m)
  PROVE  m.pos_range_ > 0 /\ m.neg_range_ > 0
<1>1. m.maximum_ >= m.center_
  BY DEF WellScaled
<1> QED
  BY <1>1, DivisorSigns DEF WellScaled, Configured

\* What map() computes, outside the deadband: the calibrated value over the
\* divisor its sign selects, plus the output center.
LEMMA MapUnfold ==
  ASSUME NEW m, Configured(m), NEW v \in Int
  PROVE  /\ Calibrated(m, v) \in Int
         /\ InDeadband(m, v) => map(m, v) = m.output_center_
         /\ ~InDeadband(m, v) /\ Calibrated(m, v) >= 0
              => map(m, v) = Quot(Calibrated(m, v), m.pos_range_)
                             + m.output_center_
         /\ ~InDeadband(m, v) /\ Calibrated(m, v) < 0
              => map(m, v) = Quot(Calibrated(m, v), m.neg_range_)
                             + m.output_center_
<1>0. m.minimum_ \in Int /\ m.maximum_ \in Int /\ m.minimum_ <= m.maximum_
  BY DEF Configured
<1>1. clamp(v, m.minimum_, m.maximum_) \in Int
  BY <1>0 DEF clamp
<1>2. Calibrated(m, v) \in Int
  BY <1>1 DEF Calibrated, Configured
<1> QED
  BY <1>2 DEF map, Divisor

\* MapSignAgrees for one mapper and one input.
LEMMA MapSign ==
  ASSUME NEW m, Configured(m), WellScaled(m), NEW v \in Int
  PROVE  LET clamped == clamp(v, m.minimum_, m.maximum_) IN
         /\ map(m, v) > m.output_center_ => clamped > m.center_
         /\ map(m, v) < m.output_center_ => clamped < m.center_
<1> DEFINE clamped == clamp(v, m.minimum_, m.maximum_)
           cal == Calibrated(m, v)
           oc == m.output_center_
<1> SUFFICES /\ map(m, v) > oc => clamped > m.center_
             /\ map(m, v) < oc => clamped < m.center_
  OBVIOUS
<1> USE DEF clamped, cal, oc
<1>1. clamped \in Int /\ cal = clamped - m.center_ /\ m.center_ \in Int
  BY DEF Configured, Calibrated, WellScaled, clamp
<1>2. cal \in Int /\ oc \in Int
  BY MapUnfold DEF Configured
<1>3. m.pos_range_ > 0 /\ m.neg_range_ > 0
      /\ m.pos_range_ \in Int /\ m.neg_range_ \in Int
  BY WellScaledDivisors DEF Configured
<1>4. CASE InDeadband(m, v)
  <2>1. map(m, v) = oc
    BY <1>4, MapUnfold
  <2> QED
    BY <1>2, <2>1
<1>5. CASE ~InDeadband(m, v) /\ cal >= 0
  <2>1. map(m, v) = Quot(cal, m.pos_range_) + oc
    BY <1>5, MapUnfold
  <2>2. Quot(cal, m.pos_range_) >= 0
    BY <1>2, <1>3, <1>5, QuotSign
  <2>3. cal = 0 => Quot(cal, m.pos_range_) = 0
    BY <1>3, QuotZero
  <2>4. Quot(cal, m.pos_range_) \in Int
    BY <1>2, <1>3, QuotType
  <2> QED
    BY <1>1, <1>2, <1>5, <2>1, <2>2, <2>3, <2>4
<1>6. CASE ~InDeadband(m, v) /\ cal < 0
  <2>1. map(m, v) = Quot(cal, m.neg_range_) + oc
    BY <1>6, MapUnfold
  <2>2. Quot(cal, m.neg_range_) <= 0 /\ Quot(cal, m.neg_range_) \in Int
    BY <1>2, <1>3, <1>6, QuotSign, QuotType
  <2> QED
    BY <1>1, <1>2, <1>6, <2>1, <2>2
<1> QED
  BY <1>2, <1>4, <1>5, <1>6

\* MapMonotone for one mapper and two inputs.
LEMMA MapMono ==
  ASSUME NEW m, Configured(m), WellScaled(m),
         NEW v \in Int, NEW w \in Int, v <= w
  PROVE  map(m, v) <= map(m, w)
<1> DEFINE c1 == Calibrated(m, v)
           c2 == Calibrated(m, w)
           oc == m.output_center_
           P == m.pos_range_
           N == m.neg_range_
<1> USE DEF c1, c2, oc, P, N
<1>1. c1 \in Int /\ c2 \in Int /\ c1 <= c2
  <2>1. clamp(v, m.minimum_, m.maximum_) <= clamp(w, m.minimum_, m.maximum_)
    BY DEF Configured, clamp
  <2> QED
    BY <2>1 DEF Configured, Calibrated, WellScaled, clamp
<1>2. P > 0 /\ N > 0 /\ P \in Int /\ N \in Int /\ oc \in Int
      /\ m.deadband_ \in Int
  BY WellScaledDivisors DEF Configured
<1>3. /\ InDeadband(m, v) <=> abs(c1) < m.deadband_
      /\ InDeadband(m, w) <=> abs(c2) < m.deadband_
  BY DEF InDeadband
<1>4. CASE InDeadband(m, v) /\ InDeadband(m, w)
  BY <1>2, <1>4, MapUnfold
<1>5. CASE InDeadband(m, v) /\ ~InDeadband(m, w)
  <2>1. c2 >= 0
    BY <1>1, <1>2, <1>3, <1>5 DEF abs
  <2>2. map(m, w) = Quot(c2, P) + oc /\ map(m, v) = oc
    BY <1>5, <2>1, MapUnfold
  <2>3. Quot(c2, P) >= 0 /\ Quot(c2, P) \in Int
    BY <1>1, <1>2, <2>1, QuotSign, QuotType
  <2> QED
    BY <1>2, <2>2, <2>3
<1>6. CASE ~InDeadband(m, v) /\ InDeadband(m, w)
  <2>1. c1 < 0
    BY <1>1, <1>2, <1>3, <1>6 DEF abs
  <2>2. map(m, v) = Quot(c1, N) + oc /\ map(m, w) = oc
    BY <1>6, <2>1, MapUnfold
  <2>3. Quot(c1, N) <= 0 /\ Quot(c1, N) \in Int
    BY <1>1, <1>2, <2>1, QuotSign, QuotType
  <2> QED
    BY <1>2, <2>2, <2>3
<1>7. CASE ~InDeadband(m, v) /\ ~InDeadband(m, w)
  <2>1. CASE c1 >= 0
    <3>1. map(m, v) = Quot(c1, P) + oc /\ map(m, w) = Quot(c2, P) + oc
      BY <1>1, <1>7, <2>1, MapUnfold
    <3>2. Quot(c1, P) <= Quot(c2, P)
      BY <1>1, <1>2, QuotMono
    <3>3. Quot(c1, P) \in Int /\ Quot(c2, P) \in Int
      BY <1>1, <1>2, QuotType
    <3> QED
      BY <1>2, <3>1, <3>2, <3>3
  <2>2. CASE c2 < 0
    <3>1. map(m, v) = Quot(c1, N) + oc /\ map(m, w) = Quot(c2, N) + oc
      BY <1>1, <1>7, <2>2, MapUnfold
    <3>2. Quot(c1, N) <= Quot(c2, N)
      BY <1>1, <1>2, QuotMono
    <3>3. Quot(c1, N) \in Int /\ Quot(c2, N) \in Int
      BY <1>1, <1>2, QuotType
    <3> QED
      BY <1>2, <3>1, <3>2, <3>3
  <2>3. CASE c1 < 0 /\ c2 >= 0
    <3>1. map(m, v) = Quot(c1, N) + oc /\ map(m, w) = Quot(c2, P) + oc
      BY <1>7, <2>3, MapUnfold
    <3>2. Quot(c1, N) <= 0 /\ Quot(c2, P) >= 0
      BY <1>1, <1>2, <2>3, QuotSign
    <3>3. Quot(c1, N) \in Int /\ Quot(c2, P) \in Int
      BY <1>1, <1>2, QuotType
    <3> QED
      BY <1>2, <3>1, <3>2, <3>3
  <2> QED
    BY <1>1, <2>1, <2>2, <2>3
<1> QED
  BY <1>4, <1>5, <1>6, <1>7

-----------------------------------------------------------------------------
(* The invariants.                                                         *)

\* A result map() returns without trapping is an int.
LEMMA MapType ==
  ASSUME NEW m, Configured(m), NEW v \in Int,
         ~(~InDeadband(m, v) /\ Divisor(m, v) = 0)
  PROVE  map(m, v) \in Int
<1>1. Calibrated(m, v) \in Int /\ m.output_center_ \in Int
  BY MapUnfold DEF Configured
<1>2. CASE InDeadband(m, v)
  BY <1>1, <1>2, MapUnfold
<1>3. CASE ~InDeadband(m, v)
  <2>1. Divisor(m, v) \in Int /\ Divisor(m, v) # 0
    BY <1>3 DEF Divisor, Configured
  <2>2. Quot(Calibrated(m, v), Divisor(m, v)) \in Int
    BY <1>1, <2>1, QuotType
  <2> QED
    BY <1>1, <1>3, <2>2 DEF map
<1> QED
  BY <1>2, <1>3

\* The mapper is always configured.
LEMMA TypeConfigured ==
  ASSUME TypeOK
  PROVE  Configured(mapper)
BY ConfigureConfigured DEF TypeOK

LEMMA TypeInit == Init => TypeOK
BY InitConfigsAssumption, InputsAssumption DEF Init, TypeOK

LEMMA TypeStep == TypeOK /\ [Next]_vars => TypeOK'
<1> SUFFICES ASSUME TypeOK, [Next]_vars PROVE TypeOK'
  OBVIOUS
<1>1. CASE \E c \in Configs : Configure(c)
  BY <1>1 DEF Configure, TypeOK
<1>2. CASE \E v \in Inputs : Map(v)
  <2>1. PICK v \in Inputs : Map(v)
    BY <1>2
  <2>2. v \in Int /\ Configured(mapper)
    BY InputsAssumption, TypeConfigured
  <2>3. ~crashed' => map(mapper, v) \in Int
    BY <2>1, <2>2, MapType DEF Map
  <2> QED
    BY <2>1, <2>3 DEF Map, TypeOK
<1>3. CASE UNCHANGED vars
  BY <1>3 DEF vars, TypeOK
<1> QED
  BY <1>1, <1>2, <1>3 DEF Next

\* The mapper, the last result and the trap flag have the types
\* configure() and map() give them (TypeOK): a map() that does not trap
\* returns an int, whatever config was given.
THEOREM TypeCorrect == Spec => []TypeOK
BY TypeInit, TypeStep, PTL DEF Spec

\* Each property about the mapper holds of every configured mapper.
LEMMA MapperProperties ==
  ASSUME TypeOK
  PROVE  MapMonotone /\ MapSignAgrees
<1>1. Configured(mapper) /\ Inputs \subseteq Int
  BY TypeConfigured, InputsAssumption
<1>2. MapMonotone
  BY <1>1, MapMono DEF MapMonotone
<1>3. MapSignAgrees
  BY <1>1, MapSign DEF MapSignAgrees
<1> QED
  BY <1>2, <1>3

\* For every config configure() accepts, the non-inverted map() with its
\* center inside the input range and non-zero divisors is monotone
\* (MapMonotone), across the deadband and the two truncating scales.
THEOREM Monotone == Spec => []MapMonotone
BY TypeCorrect, MapperProperties, PTL

\* For every such config, map() keeps each input on its side of the output
\* center (MapSignAgrees): truncation may pull a result to the center, never
\* past it.
THEOREM SignAgrees == Spec => []MapSignAgrees
BY TypeCorrect, MapperProperties, PTL

=============================================================================
