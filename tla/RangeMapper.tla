----------------------------- MODULE RangeMapper -----------------------------
(***************************************************************************)
(* espp::RangeMapper<int> (IntRangeMapper): configure() stores a config   *)
(* and precomputes the output bounds and the two scale divisors; map(v)   *)
(* clamps v, calibrates it against the center (or, inverted, against the  *)
(* ends) and scales it into the output range.  T is int, so every / is    *)
(* C++ integer division, which truncates toward zero.                     *)
(***************************************************************************)
EXTENDS Integers

CONSTANTS
  Configs,      \* the configs the program passes to configure()
  InitConfigs,  \* the configs it constructs the mapper with
  Inputs,    \* the values passed to map()
  None       \* no map() result yet

ConfigFields == {"center", "deadband", "minimum", "maximum", "invert_input",
                 "output_center", "output_range"}

\* configure() asserts a non-zero output range, and std::clamp in map()
\* requires minimum <= maximum.
ASSUME ConfigsAssumption ==
  \A c \in Configs :
    /\ DOMAIN c = ConfigFields
    /\ c.invert_input \in BOOLEAN
    /\ {c.center, c.deadband, c.minimum, c.maximum, c.output_center,
        c.output_range} \subseteq Int
    /\ c.output_range # 0
    /\ c.minimum <= c.maximum

ASSUME InitConfigsAssumption == InitConfigs \subseteq Configs

ASSUME InputsAssumption == Inputs \subseteq Int /\ None \notin Int

abs(x) == IF x < 0 THEN -x ELSE x

\* C++ integer division: the quotient truncated toward zero
Quot(a, b) == IF (a < 0) = (b < 0) THEN abs(a) \div abs(b)
                                   ELSE -(abs(a) \div abs(b))

clamp(v, lo, hi) == IF v < lo THEN lo ELSE IF hi < v THEN hi ELSE v

VARIABLES
  mapper,    \* the members of the RangeMapper object
  last,      \* the value the last map() returned, or None
  crashed    \* map() divided by zero: the CPU traps

vars == <<mapper, last, crashed>>

\* mutant: neg_range_ loses its std::abs and is negative below the center
configure_negSigned(c) ==
  LET range == abs(c.output_range) IN
  [center_ |-> c.center, deadband_ |-> c.deadband,
   minimum_ |-> c.minimum, maximum_ |-> c.maximum,
   invert_input_ |-> c.invert_input,
   output_center_ |-> c.output_center, output_range_ |-> range,
   output_min_ |-> c.output_center - range,
   output_max_ |-> c.output_center + range,
   pos_range_ |-> Quot(c.maximum - c.center, range),
   neg_range_ |-> Quot(c.minimum - c.center, range)]

\* configure(config): the members it assigns
configure(c) ==
  LET range == abs(c.output_range) IN
  [center_ |-> c.center, deadband_ |-> c.deadband,
   minimum_ |-> c.minimum, maximum_ |-> c.maximum,
   invert_input_ |-> c.invert_input,
   output_center_ |-> c.output_center, output_range_ |-> range,
   output_min_ |-> c.output_center - range,
   output_max_ |-> c.output_center + range,
   pos_range_ |-> Quot(c.maximum - c.center, range),
   neg_range_ |-> Quot(abs(c.minimum - c.center), range)]

\* map(v): the clamped input measured against the center, or when the input
\* is inverted against the end on the side of zero
Calibrated(m, v) ==
  LET clamped == clamp(v, m.minimum_, m.maximum_) IN
  IF m.invert_input_
    THEN IF clamped >= 0 THEN m.maximum_ - clamped ELSE m.minimum_ - clamped
    ELSE clamped - m.center_

InDeadband(m, v) == abs(Calibrated(m, v)) < m.deadband_

\* the divisor map(v) scales by, outside the deadband
Divisor(m, v) ==
  IF Calibrated(m, v) >= 0 THEN m.pos_range_ ELSE m.neg_range_

\* mutant: the deadband returns zero instead of the output center
map_deadbandZero(m, v) ==
  IF InDeadband(m, v) THEN 0
  ELSE Quot(Calibrated(m, v), Divisor(m, v)) + m.output_center_

map(m, v) ==
  IF InDeadband(m, v) THEN m.output_center_
  ELSE Quot(Calibrated(m, v), Divisor(m, v)) + m.output_center_

\* the constructor calls configure()
Init ==
  /\ \E c \in InitConfigs : mapper = configure(c)
  /\ last = None
  /\ crashed = FALSE

\* mutant: reconfiguring keeps the divisors computed for the old config
Configure_staleRanges(c) ==
  /\ ~crashed
  /\ mapper' = [configure(c) EXCEPT !.pos_range_ = mapper.pos_range_,
                                   !.neg_range_ = mapper.neg_range_]
  /\ last' = None
  /\ UNCHANGED crashed

\* configure(config) on a constructed mapper
Configure(c) ==
  /\ ~crashed
  /\ mapper' = configure(c)
  /\ last' = None
  /\ UNCHANGED crashed

\* map(v): a zero divisor traps before anything is returned
Map(v) ==
  /\ ~crashed
  /\ crashed' = (~InDeadband(mapper, v) /\ Divisor(mapper, v) = 0)
  /\ last' = IF crashed' THEN last ELSE map(mapper, v)
  /\ UNCHANGED mapper

Next ==
  \/ \E c \in Configs : Configure(c)
  \/ \E v \in Inputs : Map(v)

Spec == Init /\ [][Next]_vars

-----------------------------------------------------------------------------
(* Properties.                                                             *)

\* The members and the last result have the types configure() and map()
\* give them.
TypeOK ==
  /\ mapper \in {configure(c) : c \in Configs}
  /\ last \in Int \cup {None}
  /\ crashed \in BOOLEAN

\* a non-inverted mapper whose center lies in its input range and whose
\* two divisors did not truncate to zero
WellScaled(m) ==
  /\ ~m.invert_input_
  /\ m.minimum_ <= m.center_ /\ m.center_ <= m.maximum_
  /\ m.pos_range_ # 0 /\ m.neg_range_ # 0

\* The non-inverted map is monotone: a larger input never maps to a smaller
\* output, across the deadband and across the two scales of map().
MapMonotone ==
  WellScaled(mapper) =>
    \A v, w \in Inputs : v <= w => map(mapper, v) <= map(mapper, w)

\* The non-inverted map keeps the side of the center: an input below the
\* center never maps above the output center, nor one above it below.
MapSignAgrees ==
  WellScaled(mapper) =>
    \A v \in Inputs :
      LET clamped == clamp(v, mapper.minimum_, mapper.maximum_) IN
      /\ map(mapper, v) > mapper.output_center_ => clamped > mapper.center_
      /\ map(mapper, v) < mapper.output_center_ => clamped < mapper.center_

\* The doc comment of map() promises a "value within the centered output
\* distribution": every result lies in [output_min_, output_max_].
OutputInRange ==
  last # None => mapper.output_min_ <= last /\ last <= mapper.output_max_

\* map() never divides by zero for a config configure() accepts.
NoDivisionByZero == ~crashed

=============================================================================
