--------------------------- MODULE DividersProofs ---------------------------
(***************************************************************************)
(* Proofs about both dividers, for operands of every width: first that of  *)
(* task 1b under its protocol, then that of task 1a, then both in the      *)
(* settings of the run, and that of task 1a in its testbench, for every    *)
(* test file.                                                              *)
(***************************************************************************)
EXTENDS Dividers, TLAPS

----------------------------------------------------------------------------
(* The divider of task 1b *)

(* Quotient and remainder determine the integer quotient. *)
LEMMA DivisionIsUnique ==
  ASSUME NEW a \in Nat, NEW b \in Nat \ {0},
         NEW q \in Nat, NEW r \in 0 .. b - 1,
         a = q * b + r
  PROVE  a \div b = q
<1> DEFINE d == a \div b
<1>1. d \in Nat /\ b * d <= a /\ a < b * d + b
  OBVIOUS
<1> HIDE DEF d
<1>2. CASE d < q
  <2>1. b * (d + 1) <= b * q
    BY <1>1, <1>2
  <2>2. b * (d + 1) = b * d + b /\ b * q = q * b
    BY <1>1
  <2> QED
    BY <1>1, <2>1, <2>2
<1>3. CASE q < d
  <2>1. b * (q + 1) <= b * d
    BY <1>1, <1>3
  <2>2. b * (q + 1) = q * b + b
    OBVIOUS
  <2> QED
    BY <1>1, <2>1, <2>2
<1> QED
  BY <1>1, <1>2, <1>3 DEF d

(* A division under way is nowhere near overflowing its quotient. *)
LEMMA QuotientSmall ==
  ASSUME DivInv, busy_o
  PROVE  /\ quotient_p + 1 \in Quotient
         /\ (quotient_p + 1) % (2 * N) = quotient_p + 1
<1>1. /\ A = quotient_p * B + subtrahend_p /\ B # 0
      /\ A \in 0 .. N - 1 /\ B \in 0 .. N - 1 /\ subtrahend_p \in Nat
      /\ quotient_p \in Nat
  BY NAssumption DEF DivInv, TypeOK, Accounts, Operand, Quotient, AllOnes
<1>2. quotient_p <= quotient_p * B
  BY <1>1, NAssumption
<1>3. quotient_p + 1 <= N
  BY <1>1, <1>2, NAssumption
<1>4. quotient_p + 1 \in 0 .. 2 * N - 1
  BY <1>1, <1>3, NAssumption
<1> QED
  BY <1>4, NAssumption DEF Quotient, AllOnes

(* One edge in BUSY: either a subtraction that keeps the account, or the   *)
(* end with the quotient.                                                  *)
LEMMA BusyEdge ==
  ASSUME DivInv, busy_o, Clock
  PROVE  /\ state_p' \in {"BUSY", "FINISH"}
         /\ quotient_p' \in Quotient /\ subtrahend_p' \in Operand
         /\ A = quotient_p' * B + subtrahend_p'
         /\ finish_o' => quotient_p' = A \div B
<1>1. /\ A = quotient_p * B + subtrahend_p /\ B = divisor_i /\ B # 0
      /\ A \in Nat /\ B \in Nat /\ subtrahend_p \in Operand
      /\ quotient_p \in Nat /\ quotient_p \in Quotient
  BY NAssumption DEF DivInv, TypeOK, Accounts, Operand, Quotient, AllOnes
<1>2. /\ state_p = "BUSY"
      /\ quotient_p' = quotient_n /\ subtrahend_p' = subtrahend_n
      /\ state_p' = IF subtrahend_n >= divisor_i THEN "BUSY" ELSE "FINISH"
  BY DEF busy_o, Clock, ClockEdge, state_n
<1>3. /\ quotient_p' \in Quotient /\ subtrahend_p' \in Operand
      /\ A = quotient_p' * B + subtrahend_p'
  <2>1. CASE Subtracts
    <3>1. subtrahend_p' = subtrahend_p - B /\ subtrahend_p >= B
      BY <1>1, <1>2, <2>1 DEF subtrahend_n, Subtracts
    <3>2. quotient_p' = quotient_p + 1 /\ quotient_p' \in Quotient
      BY <1>2, <2>1, QuotientSmall DEF quotient_n
    <3>3. subtrahend_p' \in Operand
      BY <1>1, <3>1, NAssumption DEF Operand
    <3>4. (quotient_p + 1) * B = quotient_p * B + B
      BY <1>1
    <3>5. A = quotient_p' * B + subtrahend_p'
      BY <1>1, <3>1, <3>2, <3>4, NAssumption DEF Operand
    <3> QED
      BY <3>2, <3>3, <3>5
  <2>2. CASE ~Subtracts
    BY <1>1, <1>2, <2>2 DEF subtrahend_n, quotient_n
  <2> QED
    BY <2>1, <2>2
<1>4. ASSUME finish_o' PROVE quotient_p' = A \div B
  <2>1. ~(subtrahend_p' >= B)
    BY <1>1, <1>2, <1>4 DEF finish_o
  <2>2. subtrahend_p' \in 0 .. B - 1 /\ quotient_p' \in Nat
    BY <1>1, <1>3, <2>1, NAssumption DEF Operand, Quotient, AllOnes
  <2> QED
    BY <1>1, <1>3, <2>2, DivisionIsUnique
<1> QED
  BY <1>2, <1>3, <1>4

LEMMA InitInv == Init => DivInv
<1> SUFFICES ASSUME Init PROVE DivInv
  OBVIOUS
<1>1. 0 \in Operand /\ 0 \in Quotient
  BY NAssumption DEF Operand, Quotient, AllOnes
<1>2. TypeOK
  BY <1>1 DEF Init, InitRegs, TypeOK
<1>3. ~busy_o /\ ~finish_o
  BY DEF Init, InitRegs, busy_o, finish_o
<1> QED
  BY <1>2, <1>3 DEF DivInv, Accounts, CorrectQuotient

LEMMA DriveKeepsInv == DivInv /\ Drive => DivInv'
<1> SUFFICES ASSUME DivInv, Drive PROVE DivInv'
  OBVIOUS
<1>1. TypeOK'
  BY DEF Drive, DivInv, TypeOK, regs
<1>2. Accounts'
  BY DEF Drive, DivInv, Accounts, regs, busy_o, finish_o
<1>3. CorrectQuotient'
  BY DEF Drive, DivInv, CorrectQuotient, regs, finish_o, quotient_o
<1> QED
  BY <1>1, <1>2, <1>3 DEF DivInv

LEMMA ResetKeepsInv == DivInv /\ Reset => DivInv'
BY NAssumption DEF Reset, ResetRegs, DivInv, TypeOK, Accounts, CorrectQuotient,
   Operand, Quotient, AllOnes, busy_o, finish_o, inputs

LEMMA ClockKeepsInv == DivInv /\ Clock => DivInv'
<1> SUFFICES ASSUME DivInv, Clock PROVE DivInv'
  OBVIOUS
<1>1. UNCHANGED inputs /\ TypeOK
  BY DEF Clock, DivInv
<1>2. CASE state_p = "INIT"
  <2>1. /\ subtrahend_p' = dividend_i
        /\ quotient_p' = IF divisor_i = 0 /\ start_i THEN AllOnes ELSE 0
        /\ state_p' = IF ~start_i THEN "INIT"
                      ELSE IF divisor_i # 0 THEN "BUSY" ELSE "FINISH"
        /\ start_i => A' = dividend_i /\ B' = divisor_i
        /\ ~start_i => A' = A /\ B' = B
    BY <1>2 DEF Clock, ClockEdge, subtrahend_n, quotient_n, state_n, Starts
  <2>2. 0 \in Quotient /\ AllOnes \in Quotient
    BY NAssumption DEF Quotient, AllOnes
  <2>3. TypeOK'
    BY <1>1, <2>1, <2>2 DEF TypeOK, inputs
  <2>4. busy_o' => start_i /\ divisor_i # 0
    BY <2>1 DEF busy_o
  <2>5. Accounts'
    BY <1>1, <2>1, <2>4, NAssumption
       DEF Accounts, inputs, TypeOK, Operand
  <2>6. CorrectQuotient'
    BY <2>1 DEF CorrectQuotient, finish_o, quotient_o
  <2> QED
    BY <2>3, <2>5, <2>6 DEF DivInv
<1>3. CASE busy_o
  <2>1. A' = A /\ B' = B
    BY <1>3 DEF Clock, Starts, busy_o
  <2>2. TypeOK'
    BY <1>1, <1>3, <2>1, BusyEdge DEF TypeOK, inputs
  <2>3. Accounts' /\ CorrectQuotient'
    BY <1>1, <1>3, <2>1, BusyEdge
       DEF Accounts, CorrectQuotient, DivInv, inputs, quotient_o
  <2> QED
    BY <2>2, <2>3 DEF DivInv
<1>4. CASE finish_o
  <2>1. /\ state_p' = "INIT" /\ A' = A /\ B' = B
        /\ quotient_p' = quotient_p /\ subtrahend_p' = subtrahend_p
    BY <1>4 DEF Clock, ClockEdge, Starts, state_n, quotient_n, subtrahend_n,
       Subtracts, finish_o
  <2> QED
    BY <1>1, <2>1 DEF DivInv, TypeOK, Accounts, CorrectQuotient, inputs,
       busy_o, finish_o
<1> QED
  BY <1>1, <1>2, <1>3, <1>4 DEF TypeOK, busy_o, finish_o

(* The divider keeps the account of its dividend, and its quotient is      *)
(* right whenever it says it has finished.                                 *)
THEOREM DividerInvariant == SafeSpec => []DivInv
<1>1. DivInv /\ [Next]_vars => DivInv'
  <2> SUFFICES ASSUME DivInv, [Next]_vars PROVE DivInv'
    OBVIOUS
  <2>1. CASE UNCHANGED vars
    BY <2>1 DEF vars, regs, inputs, DivInv, TypeOK, Accounts,
       CorrectQuotient, busy_o, finish_o, quotient_o
  <2> QED
    BY <2>1, DriveKeepsInv, ClockKeepsInv, ResetKeepsInv DEF Next
<1> QED
  BY InitInv, <1>1, PTL DEF SafeSpec

(* Whenever the divider says it has finished, it shows the quotient of the *)
(* operands it was started with.                                           *)
THEOREM Quotients == SafeSpec => []CorrectQuotient
BY DividerInvariant, PTL DEF DivInv

(* Every step of the circuit is a step of what a divider promises, or      *)
(* none that its user sees.                                                *)
LEMMA StepIsPromised ==
  ASSUME DivInv, DivInv', [Next]_vars
  PROVE  [Promise!Next]_(Promise!vars)
<1> DEFINE phase == IF busy_o THEN "running"
                    ELSE IF finish_o THEN "finished" ELSE "idle"
           answer == IF finish_o THEN quotient_o ELSE 0
<1>1. CASE UNCHANGED vars \/ Drive
  <2>1. UNCHANGED <<phase, answer, A, B>>
    BY <1>1 DEF vars, regs, Drive, busy_o, finish_o, quotient_o
  <2> QED
    BY <2>1 DEF Promise!vars
<1>2. CASE Reset
  <2>1. phase' = "idle" /\ answer' = 0 /\ UNCHANGED <<A, B>>
    BY <1>2 DEF Reset, ResetRegs, busy_o, finish_o
  <2> QED
    BY <2>1 DEF Promise!Next, Promise!Abort
<1>3. CASE Clock
  <2> HIDE DEF phase, answer
  <2>1. finish_o' => answer' = Promise!Expected(A', B')
    BY DEF DivInv, CorrectQuotient, Promise!Expected, AllOnes, answer
  <2>2. CASE state_p = "INIT" /\ ~start_i
    <3>1. UNCHANGED <<phase, answer, A, B>>
      BY <1>3, <2>2 DEF Clock, ClockEdge, state_n, Starts, busy_o, finish_o,
         phase, answer
    <3> QED
      BY <3>1 DEF Promise!vars, phase, answer
  <2>3. CASE state_p = "INIT" /\ start_i
    <3>1. /\ phase = "idle"
          /\ A' \in Promise!Operand /\ B' \in Promise!Operand
      BY <2>3 DEF phase, busy_o, finish_o, DivInv, TypeOK, Operand,
         Promise!Operand
    <3>2. \/ finish_o' /\ phase' = "finished"
          \/ phase' = "running" /\ answer' = 0
      BY <1>3, <2>3 DEF Clock, ClockEdge, state_n, busy_o, finish_o, phase,
         answer
    <3> QED
      BY <2>1, <3>1, <3>2
         DEF Promise!Next, Promise!Begin, Promise!Answers, phase, answer
  <2>4. CASE busy_o
    <3>1. UNCHANGED <<A, B>> /\ phase = "running" /\ answer = 0
      BY <1>3, <2>4 DEF Clock, Starts, busy_o, finish_o, phase, answer
    <3>2. \/ finish_o' /\ phase' = "finished"
          \/ phase' = "running" /\ answer' = 0
      BY <1>3, <2>4 DEF Clock, ClockEdge, state_n, busy_o, finish_o, phase,
         answer
    <3> QED
      BY <2>1, <3>1, <3>2 DEF Promise!Next, Promise!Finish, Promise!Answers,
         Promise!vars, phase, answer
  <2>5. CASE finish_o
    <3>1. /\ phase = "finished" /\ phase' = "idle" /\ answer' = 0
          /\ UNCHANGED <<A, B>>
      BY <1>3, <2>5 DEF Clock, ClockEdge, state_n, Starts, busy_o, finish_o,
         phase, answer
    <3> QED
      BY <3>1 DEF Promise!Next, Promise!Release, phase, answer
  <2> QED
    BY <2>2, <2>3, <2>4, <2>5 DEF DivInv, TypeOK, busy_o, finish_o
<1> QED
  BY <1>1, <1>2, <1>3 DEF Next

(* The divider implements what it promises its user, for operands of every *)
(* width; that it also finishes is left to the model checker.              *)
THEOREM DividerImplementsPromise == SafeSpec => SafelyImplementsDivider
<1>1. Init => Promise!Init
  <2> SUFFICES ASSUME Init PROVE Promise!Init
    OBVIOUS
  <2>1. ~busy_o /\ ~finish_o
    BY DEF Init, InitRegs, busy_o, finish_o
  <2>2. A \in Promise!Operand /\ B \in Promise!Operand
    BY NAssumption DEF Init, Promise!Operand
  <2> QED
    BY <2>1, <2>2 DEF Promise!Init
<1>2. DivInv /\ DivInv' /\ [Next]_vars => [Promise!Next]_(Promise!vars)
  BY StepIsPromised
<1> QED
  BY DividerInvariant, <1>1, <1>2, PTL
     DEF SafeSpec, SafelyImplementsDivider, Promise!SafeSpec

----------------------------------------------------------------------------
(* The divider of task 1a *)

(* The registers of task 1a account for the operands; once it has finished *)
(* the register holds the quotient, except for a zero divisor, whose       *)
(* answer is added on the way out.                                         *)
DigInv ==
  /\ Q1 \in BOOLEAN /\ Q0 \in BOOLEAN /\ ~(Q1 /\ Q0)
  /\ subtrahend \in Operand /\ quotient \in Quotient
  /\ start1a \in BOOLEAN /\ dividend1a \in Operand /\ divisor1a \in Operand
  /\ A1a \in Operand /\ B1a \in Operand
  /\ Q1 => A1a = quotient * B1a + subtrahend /\ B1a = divisor1a /\ B1a # 0
  /\ Q0 /\ B1a # 0 => quotient = A1a \div B1a

SettingsInv == /\ setting \in {"1b", "1a", "bench"}
               /\ DivInv
               /\ setting = "1a" => DigInv

LEMMA DigInvAnswers == DigInv => Dig!Accounts /\ Dig!CorrectWhileHeld
                                              /\ Dig!CorrectWhenReleased
BY DEF DigInv, Dig!Accounts, Dig!CorrectWhileHeld, Dig!CorrectWhenReleased,
       Dig!busy_o, Dig!finish_o, Dig!quotient_o, Dig!INIT, Dig!AllOnes

(* One edge in BUSY, with the remainder still large enough: a subtraction  *)
(* that keeps the account, and does not overflow the quotient.             *)
LEMMA DigSubtracts ==
  ASSUME DigInv, Q1, subtrahend >= divisor1a
  PROVE  /\ (quotient + 1) % (2 * N) = quotient + 1
         /\ quotient + 1 \in Quotient
         /\ (subtrahend - divisor1a) % N = subtrahend - B1a
         /\ subtrahend - B1a \in Operand
         /\ A1a = (quotient + 1) * B1a + (subtrahend - B1a)
<1>1. /\ A1a = quotient * B1a + subtrahend /\ B1a = divisor1a /\ B1a # 0
      /\ A1a \in 0 .. N - 1 /\ B1a \in 0 .. N - 1
      /\ subtrahend \in 0 .. N - 1 /\ quotient \in Nat
  BY NAssumption DEF DigInv, Operand, Quotient, AllOnes
<1>2. quotient <= quotient * B1a
  BY <1>1, NAssumption
<1>3. quotient + 1 \in 0 .. 2 * N - 1
  BY <1>1, <1>2, NAssumption
<1>4. subtrahend - B1a \in 0 .. N - 1
  BY <1>1, NAssumption
<1>5. (quotient + 1) * B1a = quotient * B1a + B1a
  BY <1>1, NAssumption
<1>6. A1a = (quotient + 1) * B1a + (subtrahend - B1a)
  BY <1>1, <1>5, NAssumption
<1> QED
  BY <1>1, <1>3, <1>4, <1>6, NAssumption DEF Operand, Quotient, AllOnes

(* The edge that leaves BUSY: the quotient is complete. *)
LEMMA DigEnds ==
  ASSUME DigInv, Q1, ~(subtrahend >= divisor1a)
  PROVE  /\ quotient = A1a \div B1a
         /\ (subtrahend - divisor1a) % N \in Operand
<1>1. /\ A1a = quotient * B1a + subtrahend /\ B1a = divisor1a /\ B1a # 0
      /\ A1a \in Nat /\ B1a \in Nat \ {0}
      /\ subtrahend \in Nat /\ quotient \in Nat
  BY NAssumption DEF DigInv, Operand, Quotient, AllOnes
<1>2. subtrahend \in 0 .. B1a - 1
  BY <1>1
<1>3. quotient = A1a \div B1a
  BY <1>1, <1>2, DivisionIsUnique
<1> QED
  BY <1>1, <1>3, NAssumption DEF Operand

LEMMA DigClockKeepsInv == DigInv /\ Dig!Clock => DigInv'
<1> SUFFICES ASSUME DigInv, Dig!Clock PROVE DigInv'
  OBVIOUS
<1>1. UNCHANGED <<start1a, dividend1a, divisor1a>>
  BY DEF Dig!Clock, Dig!inputs
<1>2. 0 \in Quotient
  BY NAssumption DEF Quotient, AllOnes
<1>3. CASE ~Q1 /\ ~Q0
  <2>1. /\ Q1' = (divisor1a # 0 /\ start1a)
        /\ Q0' = (divisor1a = 0 /\ start1a)
        /\ subtrahend' = dividend1a /\ quotient' = 0
        /\ A1a' = IF start1a THEN dividend1a ELSE A1a
        /\ B1a' = IF start1a THEN divisor1a ELSE B1a
    BY <1>3 DEF Dig!Clock, Dig!ClockEdge, Dig!Q1next, Dig!Q0next, Dig!INIT,
                Dig!subtrahend_next, Dig!quotient_o, Dig!Starts
  <2>2. 0 * B1a' = 0
    BY <2>1, NAssumption DEF DigInv, Operand
  <2> QED
    BY <1>1, <1>2, <2>1, <2>2, NAssumption DEF DigInv, Operand
<1>4. CASE Q1
  <2>1. /\ Q1' = (subtrahend >= divisor1a)
        /\ Q0' = ~(subtrahend >= divisor1a)
        /\ subtrahend' = (subtrahend - divisor1a) % N
        /\ quotient' = IF subtrahend >= divisor1a
                       THEN (quotient + 1) % (2 * N) ELSE quotient
        /\ A1a' = A1a /\ B1a' = B1a
    BY <1>4 DEF DigInv, Dig!Clock, Dig!ClockEdge, Dig!Q1next, Dig!Q0next,
                Dig!INIT, Dig!subtrahend_next, Dig!quotient_o, Dig!Starts,
                Dig!sub_ge_div
  <2>2. CASE subtrahend >= divisor1a
    BY <1>1, <1>4, <2>1, <2>2, DigSubtracts DEF DigInv
  <2>3. CASE ~(subtrahend >= divisor1a)
    BY <1>1, <1>4, <2>1, <2>3, DigEnds DEF DigInv
  <2> QED
    BY <2>2, <2>3
<1>5. CASE Q0
  <2>1. /\ Q1' = FALSE /\ Q0' = FALSE
        /\ subtrahend' = subtrahend /\ A1a' = A1a /\ B1a' = B1a
        /\ quotient' \in {AllOnes, quotient}
    BY <1>5 DEF DigInv, Dig!Clock, Dig!ClockEdge, Dig!Q1next, Dig!Q0next,
                Dig!INIT, Dig!subtrahend_next, Dig!quotient_o, Dig!Starts,
                Dig!AllOnes, AllOnes
  <2>2. AllOnes \in Quotient
    BY NAssumption DEF Quotient, AllOnes
  <2> QED
    BY <1>1, <2>1, <2>2 DEF DigInv
<1> QED
  BY <1>3, <1>4, <1>5 DEF DigInv

LEMMA DigStepKeepsInv == DigInv /\ Dig!Next => DigInv'
<1>1. ASSUME DigInv, Dig!Drive PROVE DigInv'
  <2>1. /\ UNCHANGED <<Q1, Q0, subtrahend, quotient, A1a, B1a>>
        /\ start1a' \in BOOLEAN
        /\ dividend1a' \in Operand /\ divisor1a' \in Operand
    BY <1>1 DEF Dig!Drive, Dig!regs, Dig!Operand, Operand
  <2>2. Q1 => divisor1a' = divisor1a
    BY <1>1 DEF DigInv, Dig!Drive, Dig!busy_o, Dig!finish_o
  <2> QED
    BY <1>1, <2>1, <2>2 DEF DigInv
<1>2. ASSUME DigInv, Dig!Reset PROVE DigInv'
  <2>1. 0 \in Operand /\ 0 \in Quotient
    BY NAssumption DEF Operand, Quotient, AllOnes
  <2> QED
    BY <1>2, <2>1 DEF DigInv, Dig!Reset, Dig!ResetRegs, Dig!inputs
<1> QED
  BY <1>1, <1>2, DigClockKeepsInv DEF Dig!Next

----------------------------------------------------------------------------
LEMMA SettingsInit == AllInit => SettingsInv
<1> SUFFICES ASSUME AllInit PROVE SettingsInv
  OBVIOUS
<1>1. 0 \in Operand /\ 0 \in Quotient
  BY NAssumption DEF Operand, Quotient, AllOnes
<1>2. ASSUME AtRest1b PROVE Init
  BY <1>1, <1>2 DEF AtRest1b, Init
<1>3. Init
  BY <1>2 DEF AllInit
<1>4. setting = "1a" => DigInv
  BY <1>1 DEF AllInit, DigInv, Dig!Init, Dig!InitRegs, Dig!Operand, Operand
<1> QED
  BY <1>3, <1>4, InitInv DEF SettingsInv, AllInit

LEMMA SettingsStep == SettingsInv /\ [AllNext]_allVars => SettingsInv'
<1> SUFFICES ASSUME SettingsInv, [AllNext]_allVars PROVE SettingsInv'
  OBVIOUS
<1>1. ASSUME UNCHANGED vars PROVE DivInv'
  BY <1>1 DEF SettingsInv, vars, regs, inputs, DivInv, TypeOK, Accounts,
              CorrectQuotient, busy_o, finish_o, quotient_o
<1>2. CASE Only1b /\ Next
  BY <1>2, DriveKeepsInv, ClockKeepsInv, ResetKeepsInv
     DEF Only1b, Next, SettingsInv
<1>3. CASE Only1a /\ Dig!Next
  BY <1>1, <1>3, DigStepKeepsInv DEF Only1a, SettingsInv
<1>4. CASE OnlyBench /\ Bench!Next
  BY <1>1, <1>4 DEF OnlyBench, SettingsInv
<1>5. CASE UNCHANGED allVars
  BY <1>1, <1>5 DEF allVars, vars1a, SettingsInv, DigInv
<1> QED
  BY <1>2, <1>3, <1>4, <1>5 DEF AllNext

THEOREM Settings == AllSpec => []SettingsInv
BY SettingsInit, SettingsStep, PTL DEF AllSpec

(* The divider of task 1b accounts for its dividend and shows the quotient *)
(* when it has finished, in whatever company.                              *)
THEOREM DividerInvariant1b == AllSpec => []DivInv
BY Settings, PTL DEF SettingsInv

(* The divider of task 1a shows the quotient for as long as its user keeps *)
(* to the protocol, although its output is no register.                    *)
THEOREM DigAnswersAlways == AllSpec => []DigAnswers
<1>1. SettingsInv => DigAnswers
  BY DigInvAnswers DEF SettingsInv, DigAnswers
<1> QED
  BY <1>1, Settings, PTL

(* What termination rests on: whatever the user does meanwhile, each clock *)
(* edge that does not end a division under way leaves a smaller remainder, *)
(* and nothing else makes it larger again.                                 *)
CountsDown1b ==
  [][setting = "1b" /\ busy_o /\ busy_o' =>
       /\ subtrahend_p' <= subtrahend_p
       /\ Clock => subtrahend_p' < subtrahend_p]_allVars
CountsDown1a ==
  [][setting = "1a" /\ Dig!busy_o /\ Dig!busy_o' =>
       /\ subtrahend' <= subtrahend
       /\ Dig!Clock => subtrahend' < subtrahend]_allVars

LEMMA EdgeCountsDown ==
  ASSUME DivInv, Clock, busy_o, busy_o'
  PROVE  subtrahend_p' < subtrahend_p
<1>1. /\ B = divisor_i /\ B \in Nat \ {0} /\ subtrahend_p \in Nat
  BY NAssumption DEF DivInv, TypeOK, Accounts, Operand
<1>2. /\ subtrahend_p' = subtrahend_n /\ subtrahend_n >= divisor_i
      /\ state_p = "BUSY"
  BY DEF busy_o, Clock, ClockEdge, state_n
<1>3. subtrahend_p' = subtrahend_p - B
  BY <1>1, <1>2 DEF subtrahend_n, Subtracts
<1> QED
  BY <1>1, <1>3

LEMMA DigEdgeCountsDown ==
  ASSUME DigInv, Dig!Clock, Q1, Q1'
  PROVE  subtrahend' < subtrahend
<1>1. subtrahend >= divisor1a /\ subtrahend' = (subtrahend - divisor1a) % N
  BY DEF DigInv, Dig!Clock, Dig!ClockEdge, Dig!Q1next, Dig!INIT,
         Dig!subtrahend_next, Dig!sub_ge_div
<1>2. subtrahend' = subtrahend - B1a
  BY <1>1, DigSubtracts
<1>3. B1a \in Nat \ {0} /\ subtrahend \in Nat
  BY NAssumption DEF DigInv, Operand
<1> QED
  BY <1>2, <1>3

(* A division of task 1b ends after at most one clock edge more than its   *)
(* dividend; that the clock goes on is all that `ImplementsDivider' needs  *)
(* beside.                                                                 *)
THEOREM DivisionsCountDown == AllSpec => CountsDown1b
<1>1. SettingsInv /\ [AllNext]_allVars =>
        [setting = "1b" /\ busy_o /\ busy_o' =>
           /\ subtrahend_p' <= subtrahend_p
           /\ Clock => subtrahend_p' < subtrahend_p]_allVars
  <2> SUFFICES ASSUME SettingsInv, AllNext, setting = "1b", busy_o, busy_o'
               PROVE  /\ subtrahend_p' <= subtrahend_p
                      /\ Clock => subtrahend_p' < subtrahend_p
    OBVIOUS
  <2>1. subtrahend_p \in Nat /\ DivInv
    BY NAssumption DEF SettingsInv, DivInv, TypeOK, Operand
  <2>2. Clock => subtrahend_p' < subtrahend_p
    BY <2>1, EdgeCountsDown
  <2>3. Next
    BY DEF AllNext, Only1a, OnlyBench
  <2>4. Drive => subtrahend_p' = subtrahend_p
    BY DEF Drive, regs
  <2>5. ~Reset
    BY DEF Reset, ResetRegs, busy_o
  <2>6. Clock => subtrahend_p' <= subtrahend_p
    <3>1. CASE Clock
      <4>1. subtrahend_p' \in Nat
        BY <2>1, <3>1, BusyEdge, NAssumption DEF Operand
      <4> QED
        BY <2>1, <2>2, <3>1, <4>1
    <3> QED
      BY <3>1
  <2> QED
    BY <2>1, <2>2, <2>3, <2>4, <2>5, <2>6 DEF Next
<1> QED
  BY <1>1, Settings, PTL DEF AllSpec, CountsDown1b

(* The same of the divider of task 1a, whose `DigFinishes' rests on it. *)
THEOREM DigDivisionsCountDown == AllSpec => CountsDown1a
<1>1. SettingsInv /\ SettingsInv' /\ [AllNext]_allVars =>
        [setting = "1a" /\ Dig!busy_o /\ Dig!busy_o' =>
           /\ subtrahend' <= subtrahend
           /\ Dig!Clock => subtrahend' < subtrahend]_allVars
  <2> SUFFICES ASSUME SettingsInv, SettingsInv', AllNext, setting = "1a",
                      Q1, Q1'
               PROVE  /\ subtrahend' <= subtrahend
                      /\ Dig!Clock => subtrahend' < subtrahend
    BY DEF Dig!busy_o
  <2>1. DigInv /\ subtrahend \in Nat
    BY NAssumption DEF SettingsInv, DigInv, Operand
  <2>2. Dig!Clock => subtrahend' < subtrahend
    BY <2>1, DigEdgeCountsDown
  <2>3. Only1a /\ Dig!Next
    BY DEF AllNext, Only1b, OnlyBench
  <2>4. subtrahend' \in Nat
    BY <2>3, NAssumption DEF Only1a, SettingsInv, DigInv, Operand
  <2>5. Dig!Drive => subtrahend' = subtrahend
    BY DEF Dig!Drive, Dig!regs
  <2>6. ~Dig!Reset
    BY DEF Dig!Reset, Dig!ResetRegs
  <2>7. subtrahend' < subtrahend => subtrahend' <= subtrahend
    BY <2>1, <2>4
  <2> QED
    BY <2>1, <2>2, <2>3, <2>5, <2>6, <2>7 DEF Dig!Next
<1> QED
  BY <1>1, Settings, PTL DEF AllSpec, CountsDown1a

----------------------------------------------------------------------------
(* The divider of task 1a in its testbench *)

(* One subtraction of a division a / b under way, for operands of n        *)
(* values: it keeps the account and nothing wraps.                         *)
LEMMA SubtractionFits ==
  ASSUME NEW n \in Nat \ {0}, NEW a \in 0 .. n - 1, NEW b \in 0 .. n - 1,
         NEW q \in Nat, NEW r \in 0 .. n - 1,
         a = q * b + r, r >= b, b # 0
  PROVE  /\ (q + 1) % (2 * n) = q + 1
         /\ (r - b) % n = r - b /\ r - b \in 0 .. n - 1
         /\ a = (q + 1) * b + (r - b)
<1>1. q <= q * b
  OBVIOUS
<1>2. q + 1 \in 0 .. 2 * n - 1
  BY <1>1
<1>3. r - b \in 0 .. n - 1
  OBVIOUS
<1>4. (q + 1) * b = q * b + b
  OBVIOUS
<1>5. a = (q + 1) * b + (r - b)
  BY <1>4
<1>6. (q + 1) % (2 * n) = q + 1
  BY <1>2
<1>7. (r - b) % n = r - b
  BY <1>3
<1> QED
  BY <1>3, <1>5, <1>6, <1>7

(* The account of the division of the current line, and its answer. *)
BenchBusy == /\ divisor1a # 0
             /\ dividend1a = quotient * divisor1a + subtrahend
BenchDone == divisor1a # 0 => quotient = dividend1a \div divisor1a

(* What a clock edge makes of the registers, start and operands given. *)
LEMMA BenchEdge ==
  ASSUME Bench!ClockEdge, BenchN \in Nat \ {0},
         Q1 \in BOOLEAN, Q0 \in BOOLEAN, ~(Q1 /\ Q0), start1a \in BOOLEAN,
         subtrahend \in 0 .. BenchN - 1, quotient \in Nat,
         dividend1a \in 0 .. BenchN - 1, divisor1a \in 0 .. BenchN - 1,
         Q1 => BenchBusy
  PROVE  /\ Q1' \in BOOLEAN /\ Q0' \in BOOLEAN /\ ~(Q1' /\ Q0')
         /\ subtrahend' \in 0 .. BenchN - 1 /\ quotient' \in Nat
         /\ ~Q1 /\ ~Q0 => /\ Q1' = (start1a /\ divisor1a # 0)
                          /\ Q0' = (start1a /\ divisor1a = 0)
         /\ Q1 => Q1' \/ Q0'
         /\ Q0 => ~Q1' /\ ~Q0'
         /\ Q1' => divisor1a # 0
                   /\ dividend1a = quotient' * divisor1a + subtrahend'
         /\ Q0' /\ divisor1a # 0 => quotient' = dividend1a \div divisor1a
<1>1. CASE ~Q1 /\ ~Q0
  <2>1. /\ Q1' = (start1a /\ divisor1a # 0)
        /\ Q0' = (start1a /\ divisor1a = 0)
        /\ subtrahend' = dividend1a /\ quotient' = 0
    BY <1>1 DEF Bench!ClockEdge, Bench!Q1next, Bench!Q0next, Bench!INIT,
                Bench!subtrahend_next, Bench!quotient_o
  <2>2. dividend1a = 0 * divisor1a + dividend1a
    OBVIOUS
  <2> QED
    BY <1>1, <2>1, <2>2
<1>2. CASE Q1
  <2>1. /\ Q1' \in BOOLEAN /\ (Q1' <=> subtrahend >= divisor1a)
        /\ Q0' \in BOOLEAN /\ (Q0' <=> ~(subtrahend >= divisor1a))
        /\ subtrahend' = (subtrahend - divisor1a) % BenchN
        /\ quotient' = IF subtrahend >= divisor1a
                       THEN (quotient + 1) % (2 * BenchN) ELSE quotient
    BY <1>2 DEF Bench!ClockEdge, Bench!Q1next, Bench!Q0next, Bench!INIT,
                Bench!subtrahend_next, Bench!quotient_o, Bench!sub_ge_div
  <2>2. CASE subtrahend >= divisor1a
    <3>1. /\ (quotient + 1) % (2 * BenchN) = quotient + 1
          /\ (subtrahend - divisor1a) % BenchN = subtrahend - divisor1a
          /\ subtrahend - divisor1a \in 0 .. BenchN - 1
          /\ dividend1a = (quotient + 1) * divisor1a
                            + (subtrahend - divisor1a)
      BY <1>2, <2>2, SubtractionFits DEF BenchBusy
    <3>2. /\ Q1' /\ ~Q0'
          /\ subtrahend' = subtrahend - divisor1a
          /\ quotient' = quotient + 1
      BY <2>1, <2>2, <3>1
    <3>3. divisor1a # 0 /\ quotient + 1 \in Nat
      BY <1>2 DEF BenchBusy
    <3>4. dividend1a = quotient' * divisor1a + subtrahend'
      BY <3>1, <3>2
    <3> QED
      BY <1>2, <2>1, <3>1, <3>2, <3>3, <3>4
  <2>3. CASE ~(subtrahend >= divisor1a)
    <3>1. quotient = dividend1a \div divisor1a
      <4>1. /\ subtrahend \in 0 .. divisor1a - 1
            /\ divisor1a \in Nat \ {0} /\ dividend1a \in Nat
        BY <1>2, <2>3 DEF BenchBusy
      <4>2. dividend1a = quotient * divisor1a + subtrahend
        BY <1>2 DEF BenchBusy
      <4> QED
        BY <4>1, <4>2, DivisionIsUnique
    <3>2. (subtrahend - divisor1a) % BenchN \in 0 .. BenchN - 1
      OBVIOUS
    <3>3. ~Q1' /\ Q0' /\ quotient' = quotient
      BY <2>1, <2>3
    <3>4. subtrahend' \in 0 .. BenchN - 1
      BY <2>1, <3>2
    <3> QED
      BY <1>2, <2>1, <3>1, <3>3, <3>4
  <2> QED
    BY <2>2, <2>3
<1>3. CASE Q0
  <2>1. /\ Q1' = FALSE /\ Q0' = FALSE /\ subtrahend' = subtrahend
        /\ quotient' \in {2 * BenchN - 1, quotient}
        /\ ~Q1
    BY <1>3 DEF Bench!ClockEdge, Bench!Q1next, Bench!Q0next, Bench!INIT,
                Bench!subtrahend_next, Bench!quotient_o, Bench!AllOnes
  <2>2. quotient' \in Nat
    BY <2>1
  <2> QED
    BY <1>3, <2>1, <2>2
<1> QED
  BY <1>1, <1>2, <1>3

(* A line is worked off from when start rises to the comparison; before,   *)
(* the divider has nothing to do but to leave its last answer, and has     *)
(* done so when start rises, since the delay is longer than the period.    *)
BenchInv ==
  /\ Q1 \in BOOLEAN /\ Q0 \in BOOLEAN /\ ~(Q1 /\ Q0)
  /\ subtrahend \in 0 .. BenchN - 1 /\ quotient \in Nat
  /\ suite \in Seq(Test) /\ suite # << >>
  /\ dividend1a = suite[1][1] /\ divisor1a = suite[1][2]
  /\ toWake \in 0 .. 12 /\ toEdge \in 0 .. 10
  /\ pc \in {"raise", "lower", "wait", "passed"}
  /\ start1a \in BOOLEAN /\ (start1a <=> pc = "lower")
  /\ Q1 => BenchBusy /\ pc \in {"lower", "wait"}
  /\ Q0 /\ pc \in {"lower", "wait"} => BenchDone
  /\ Q0 /\ pc = "wait" => divisor1a # 0
  /\ Q0 /\ pc = "raise" => toEdge < toWake

LEMMA BenchOperands ==
  BenchInv => dividend1a \in 0 .. BenchN - 1 /\ divisor1a \in 0 .. BenchN - 1
<1> SUFFICES ASSUME BenchInv
             PROVE  /\ dividend1a \in 0 .. BenchN - 1
                    /\ divisor1a \in 0 .. BenchN - 1
  OBVIOUS
<1>1. suite[1] \in Test
  BY DEF BenchInv
<1> QED
  BY <1>1 DEF Test, BenchInv

LEMMA BenchInitInv == Bench!Init => BenchInv
<1> SUFFICES ASSUME Bench!Init PROVE BenchInv
  OBVIOUS
<1>1. suite \in Seq(Test) /\ suite # << >>
  BY BenchAssumption DEF Bench!Init
<1>2. /\ dividend1a = suite[1][1] /\ divisor1a = suite[1][2]
      /\ Q1 = FALSE /\ Q0 = FALSE /\ subtrahend = 0 /\ quotient = 0
      /\ toWake = 12 /\ toEdge = 5 /\ pc = "raise" /\ start1a = FALSE
  BY <1>1 DEF Bench!Init, Bench!InitRegs, Bench!Delay
<1>3. 0 \in 0 .. BenchN - 1 /\ toWake \in 0 .. 12 /\ toEdge \in 0 .. 10
  BY <1>2, BenchAssumption
<1> QED
  BY <1>1, <1>2, <1>3 DEF BenchInv

(* A finished divider shows what the testbench expects. *)
LEMMA ComparePasses ==
  ASSUME BenchInv, Q0, pc \in {"lower", "wait"}
  PROVE  Bench!quotient_o = Bench!Expected(Head(suite))
<1>1. Head(suite)[1] = dividend1a /\ Head(suite)[2] = divisor1a
  BY DEF BenchInv
<1>2. ~Q1 /\ BenchDone /\ (pc = "wait" => divisor1a # 0)
      /\ start1a \in BOOLEAN /\ (start1a <=> pc = "lower")
  BY DEF BenchInv
<1>3. Bench!quotient_o = IF divisor1a = 0 /\ start1a THEN Bench!AllOnes
                         ELSE quotient
  BY <1>2 DEF Bench!quotient_o, Bench!INIT
<1> QED
  BY <1>1, <1>2, <1>3 DEF Bench!Expected, BenchDone

(* So the comparison goes on to the next line, or ends the run. *)
LEMMA CompareGoesOn ==
  ASSUME BenchInv, Q0, pc \in {"lower", "wait"}, Bench!Compare
  PROVE  /\ start1a' = FALSE
         /\ \/ /\ pc' = "passed"
               /\ UNCHANGED <<dividend1a, divisor1a, suite, toWake>>
            \/ /\ pc' = "raise" /\ toWake' = 12 /\ suite' = Tail(suite)
               /\ suite' \in Seq(Test) /\ suite' # << >>
               /\ dividend1a' = suite'[1][1] /\ divisor1a' = suite'[1][2]
<1>1. suite \in Seq(Test) /\ suite # << >>
  BY DEF BenchInv
<1>2. Len(suite) # 1 => Tail(suite) \in Seq(Test) /\ Tail(suite) # << >>
  <2>1. Tail(suite) \in Seq(Test) /\ Len(Tail(suite)) = Len(suite) - 1
    BY <1>1
  <2>2. Len(suite) \in Nat /\ Len(suite) # 0
    BY <1>1
  <2>3. ASSUME Len(suite) # 1 PROVE Tail(suite) # << >>
    <3> DEFINE t == Tail(suite)
    <3>1. Len(t) # 0
      BY <2>1, <2>2, <2>3
    <3> HIDE DEF t
    <3>2. t # << >>
      BY <3>1
    <3> QED
      BY <3>2 DEF t
  <2> QED
    BY <2>1, <2>3
<1> QED
  BY <1>2, ComparePasses DEF Bench!Compare, Bench!Delay

LEMMA ComparedKeeps ==
  ASSUME BenchInv, Q0, pc \in {"lower", "wait"}, Bench!Compare,
         UNCHANGED <<Q1, Q0, subtrahend, quotient>>, toEdge' \in 0 .. 10
  PROVE  BenchInv'
<1>1. /\ Q1' = FALSE /\ Q0' = TRUE /\ start1a' = FALSE
      /\ subtrahend' \in 0 .. BenchN - 1 /\ quotient' \in Nat
  BY CompareGoesOn DEF BenchInv
<1>2. CASE /\ pc' = "passed"
           /\ UNCHANGED <<dividend1a, divisor1a, suite, toWake>>
  BY <1>1, <1>2 DEF BenchInv
<1>3. CASE /\ pc' = "raise" /\ toWake' = 12 /\ suite' = Tail(suite)
           /\ suite' \in Seq(Test) /\ suite' # << >>
           /\ dividend1a' = suite'[1][1] /\ divisor1a' = suite'[1][2]
  <2>1. toEdge' < toWake' /\ toWake' \in 0 .. 12
    BY <1>3
  <2> QED
    BY <1>1, <1>3, <2>1 DEF BenchInv
<1> QED
  BY <1>2, <1>3, CompareGoesOn

LEMMA BenchStep == BenchInv /\ [Bench!Next]_(Bench!vars) => BenchInv'
<1> SUFFICES ASSUME BenchInv, [Bench!Next]_(Bench!vars) PROVE BenchInv'
  OBVIOUS
<1>1. CASE Bench!Edge
  <2>1. /\ UNCHANGED <<start1a, dividend1a, divisor1a, suite, pc>>
        /\ toEdge' = 10 /\ Bench!ClockEdge
        /\ pc \in {"raise", "lower"} => /\ toEdge <= toWake
                                        /\ toWake' = toWake - toEdge
        /\ pc \notin {"raise", "lower"} => toWake' = toWake
        /\ pc # "passed"
    BY <1>1 DEF Bench!Edge, Bench!inputs, Bench!Delayed, Bench!Stopped,
       Bench!Period
  <2>2. start1a \in BOOLEAN /\ (start1a <=> pc = "lower")
    BY DEF BenchInv
  <2>3. /\ Q1' \in BOOLEAN /\ Q0' \in BOOLEAN /\ ~(Q1' /\ Q0')
        /\ subtrahend' \in 0 .. BenchN - 1 /\ quotient' \in Nat
        /\ ~Q1 /\ ~Q0 => /\ Q1' = (start1a /\ divisor1a # 0)
                         /\ Q0' = (start1a /\ divisor1a = 0)
        /\ Q0 => ~Q1' /\ ~Q0'
        /\ Q1' => divisor1a # 0
                  /\ dividend1a = quotient' * divisor1a + subtrahend'
        /\ Q0' /\ divisor1a # 0 => quotient' = dividend1a \div divisor1a
    BY <2>1, <2>2, BenchAssumption, BenchOperands, BenchEdge DEF BenchInv
  <2>4. toWake' \in 0 .. 12 /\ toEdge' \in 0 .. 10
    BY <2>1 DEF BenchInv
  <2>5. /\ Q1' => BenchBusy' /\ pc' \in {"lower", "wait"}
        /\ Q0' /\ pc' \in {"lower", "wait"} => BenchDone'
        /\ Q0' /\ pc' = "wait" => divisor1a' # 0
        /\ Q0' /\ pc' = "raise" => toEdge' < toWake'
    BY <2>1, <2>3 DEF BenchInv, BenchBusy, BenchDone
  <2> QED
    BY <2>1, <2>3, <2>4, <2>5 DEF BenchInv
<1>2. CASE Bench!Raise
  <2>1. /\ UNCHANGED <<Q1, Q0, subtrahend, quotient, dividend1a, divisor1a,
                       suite>>
        /\ pc = "raise" /\ pc' = "lower" /\ start1a' = TRUE
        /\ toWake <= toEdge /\ toWake' = 12 /\ toEdge' = toEdge - toWake
    BY <1>2 DEF Bench!Raise, Bench!Wakes, Bench!regs, Bench!Delay
  <2>2. ~Q0 /\ ~Q1
    BY <2>1 DEF BenchInv
  <2> QED
    BY <2>1, <2>2 DEF BenchInv
<1>3. CASE Bench!Lower
  <2>1. /\ UNCHANGED <<Q1, Q0, subtrahend, quotient>>
        /\ pc = "lower" /\ toWake <= toEdge /\ toEdge' = toEdge - toWake
        /\ \/ Q0 /\ Bench!Compare
           \/ /\ ~Q0 /\ start1a' = FALSE /\ pc' = "wait"
              /\ UNCHANGED <<dividend1a, divisor1a, suite, toWake>>
    BY <1>3 DEF Bench!Lower, Bench!Wakes, Bench!regs, Bench!finish_o
  <2>2. toEdge' \in 0 .. 10
    BY <2>1 DEF BenchInv
  <2>3. CASE Q0 /\ Bench!Compare
    BY <2>1, <2>2, <2>3, ComparedKeeps
  <2>4. CASE ~Q0
    BY <2>1, <2>2, <2>4 DEF BenchInv, BenchBusy
  <2> QED
    BY <2>1, <2>3, <2>4
<1>4. CASE Bench!WaitReturns
  <2>1. /\ UNCHANGED <<Q1, Q0, subtrahend, quotient, toEdge>>
        /\ pc = "wait" /\ Q0 /\ Bench!Compare
    BY <1>4 DEF Bench!WaitReturns, Bench!regs, Bench!finish_o
  <2>2. toEdge' \in 0 .. 10
    BY <2>1 DEF BenchInv
  <2> QED
    BY <2>1, <2>2, ComparedKeeps
<1>5. CASE UNCHANGED Bench!vars
  BY <1>5 DEF Bench!vars, Bench!regs, Bench!inputs, BenchInv, BenchBusy,
     BenchDone
<1> QED
  BY <1>1, <1>2, <1>3, <1>4, <1>5 DEF Bench!Next

LEMMA BenchRuns ==
  AllSpec => [](setting = "bench" => BenchInv)
<1> DEFINE Inv == setting = "bench" => BenchInv
<1>1. AllInit => Inv
  BY BenchInitInv DEF AllInit
<1>2. Inv /\ [AllNext]_allVars => Inv'
  <2> SUFFICES ASSUME Inv, [AllNext]_allVars, setting' = "bench"
               PROVE  BenchInv'
    OBVIOUS
  <2>1. setting = "bench" /\ [Bench!Next]_(Bench!vars)
    BY DEF AllNext, Only1b, Only1a, OnlyBench, allVars, vars1a, bench,
       Bench!vars, Bench!regs, Bench!inputs
  <2> QED
    BY <2>1, BenchStep
<1> HIDE DEF Inv
<1>3. AllSpec => []Inv
  BY <1>1, <1>2, PTL DEF AllSpec
<1> QED
  BY <1>3 DEF Inv

(* No test of any file is reported as failed, at any width of the          *)
(* operands: whenever the testbench compares, the divider shows the        *)
(* quotient, though it does so for one clock period only and is no longer  *)
(* held there by start.                                                    *)
NoTestFails == setting = "bench" => pc # "failed"
THEOREM TestsNeverFail == AllSpec => []NoTestFails
<1>1. (setting = "bench" => BenchInv) => NoTestFails
  BY DEF BenchInv, NoTestFails
<1> QED
  BY <1>1, BenchRuns, PTL

----------------------------------------------------------------------------
(* No test waits in vain *)

(* The testbench waits for the finish of a division the divider is not at; *)
(* once it does, it does so for ever.                                      *)
Hung == setting = "bench" /\ pc = "wait" /\ Bench!INIT
HungForEver == [][Hung => Hung']_allVars

THEOREM AHungTestStaysHung == AllSpec => HungForEver
<1>1. (setting = "bench" => BenchInv) /\ [AllNext]_allVars => (Hung => Hung')
  <2> SUFFICES ASSUME BenchInv, [AllNext]_allVars, Hung PROVE Hung'
    BY DEF Hung
  <2>1. ~Q1 /\ ~Q0 /\ pc = "wait" /\ setting = "bench" /\ ~start1a
    BY DEF Hung, Bench!INIT, BenchInv
  <2>2. CASE Bench!Edge /\ setting' = setting
    <3>1. pc' = pc /\ Bench!ClockEdge
      BY <2>2 DEF Bench!Edge
    <3>2. ~Q1' /\ ~Q0'
      BY <2>1, <3>1 DEF Bench!ClockEdge, Bench!Q1next, Bench!Q0next, Bench!INIT
    <3> QED
      BY <2>1, <2>2, <3>1, <3>2 DEF Hung, Bench!INIT
  <2>3. CASE UNCHANGED allVars
    BY <2>3 DEF Hung, Bench!INIT, allVars, vars1a, bench
  <2>4. ~Bench!Raise /\ ~Bench!Lower /\ ~Bench!WaitReturns
    BY <2>1 DEF Bench!Raise, Bench!Lower, Bench!WaitReturns, Bench!finish_o
  <2> QED
    BY <2>1, <2>2, <2>3, <2>4 DEF AllNext, Only1b, Only1a, OnlyBench, Bench!Next
<1> QED
  BY <1>1, BenchRuns, PTL DEF AllSpec, HungForEver

(* Files that never divide by zero twice in a row, as those of the         *)
(* repository.                                                             *)
Sparse(s) == \A i \in 1 .. Len(s) - 1 : s[i][2] # 0 \/ s[i + 1][2] # 0

(* Where the next clock edge and the end of the delay may stand, on the    *)
(* lines whatever they are and on those with a divisor other than zero.    *)
(* The pulse of a line with divisor zero so always meets a single edge.    *)
RaiseTimes == {<<5, 12>>, <<10, 7>>, <<10, 12>>, <<10, 2>>}
RaiseTimesNonzero ==
  {<<1, 12>>, <<10, 11>>, <<10, 1>>, <<6, 12>>, <<10, 6>>}
DriftInv ==
  /\ Sparse(suite)
  /\ pc = "raise" =>
       \/ <<toEdge, toWake>> \in RaiseTimes
       \/ divisor1a # 0 /\ <<toEdge, toWake>> \in RaiseTimesNonzero
  /\ pc = "lower" =>
       \/ /\ ~Q1 /\ ~Q0 /\ toWake = 12
          /\ toEdge \in {3, 8} \/ (divisor1a # 0 /\ toEdge \in {9, 4})
       \/ /\ divisor1a = 0 /\ Q0 /\ toEdge = 10 /\ toWake \in {9, 4}
       \/ /\ divisor1a # 0 /\ Q1 /\ toEdge = 10 /\ toWake \in {9, 4, 3, 8}
  /\ pc = "wait" => (Q1 \/ Q0) /\ (Q0 => toEdge = 10)

(* The next line begins when the division was compared: two or six tens    *)
(* before the clock rises at the end of the pulse, or right behind an edge.*)
LEMMA NextLineDrifts ==
  ASSUME BenchInv, DriftInv, Q0, pc \in {"lower", "wait"}, Bench!Compare,
         UNCHANGED <<Q1, Q0>>,
         \/ toEdge' = 10
         \/ divisor1a = 0 /\ toEdge' \in {1, 6}
  PROVE  DriftInv'
<1>1. CASE /\ pc' = "passed"
           /\ UNCHANGED <<dividend1a, divisor1a, suite, toWake>>
  BY <1>1 DEF DriftInv
<1>2. CASE /\ pc' = "raise" /\ toWake' = 12 /\ suite' = Tail(suite)
           /\ suite' \in Seq(Test) /\ suite' # << >>
           /\ dividend1a' = suite'[1][1] /\ divisor1a' = suite'[1][2]
  <2>1. /\ suite \in Seq(Test) /\ Len(suite') = Len(suite) - 1
        /\ Len(suite) \in Nat /\ Len(suite') \in Nat \ {0}
        /\ \A i \in 1 .. Len(suite') : suite'[i] = suite[i + 1]
    <3>1. suite \in Seq(Test) /\ suite # << >>
      BY DEF BenchInv
    <3>2. Len(suite') \in Nat \ {0}
      BY <1>2
    <3> QED
      BY <1>2, <3>1, <3>2
  <2>2. Sparse(suite')
    <3> SUFFICES ASSUME NEW i \in 1 .. Len(suite') - 1
                 PROVE  suite'[i][2] # 0 \/ suite'[i + 1][2] # 0
      BY DEF Sparse
    <3>1. suite'[i] = suite[i + 1] /\ suite'[i + 1] = suite[(i + 1) + 1]
      BY <2>1
    <3>2. i + 1 \in 1 .. Len(suite) - 1
      BY <2>1
    <3> QED
      BY <3>1, <3>2 DEF DriftInv, Sparse
  <2>3. divisor1a = 0 => divisor1a' # 0
    <3>1. divisor1a = suite[1][2] /\ divisor1a' = suite[1 + 1][2]
      BY <1>2, <2>1 DEF BenchInv
    <3>2. 1 \in 1 .. Len(suite) - 1
      BY <2>1
    <3> QED
      BY <3>1, <3>2 DEF DriftInv, Sparse
  <2>4. \/ <<toEdge', toWake'>> = <<10, 12>>
        \/ divisor1a' # 0 /\ <<toEdge', toWake'>> \in {<<1, 12>>, <<6, 12>>}
    BY <1>2, <2>3
  <2> QED
    BY <1>2, <2>2, <2>4 DEF DriftInv, RaiseTimes, RaiseTimesNonzero
<1> QED
  BY <1>1, <1>2, CompareGoesOn

LEMMA DriftStep ==
  BenchInv /\ DriftInv /\ [Bench!Next]_(Bench!vars) => DriftInv'
<1> SUFFICES ASSUME BenchInv, DriftInv, [Bench!Next]_(Bench!vars)
             PROVE  DriftInv'
  OBVIOUS
<1>1. CASE Bench!Edge
  <2>1. /\ UNCHANGED <<start1a, dividend1a, divisor1a, suite, pc>>
        /\ toEdge' = 10 /\ Bench!ClockEdge
        /\ pc \in {"raise", "lower"} => /\ toEdge <= toWake
                                        /\ toWake' = toWake - toEdge
        /\ pc \notin {"raise", "lower"} => ~Q0
        /\ pc # "passed"
    BY <1>1 DEF Bench!Edge, Bench!inputs, Bench!Delayed, Bench!Stopped,
       Bench!Period, Bench!finish_o
  <2>2. start1a \in BOOLEAN /\ (start1a <=> pc = "lower")
    BY DEF BenchInv
  <2>3. /\ Q1' \in BOOLEAN /\ Q0' \in BOOLEAN
        /\ ~Q1 /\ ~Q0 => /\ Q1' = (start1a /\ divisor1a # 0)
                         /\ Q0' = (start1a /\ divisor1a = 0)
        /\ Q1 => Q1' \/ Q0'
    BY <2>1, <2>2, BenchAssumption, BenchOperands, BenchEdge DEF BenchInv
  <2>4. CASE pc = "raise"
    <3>1. \/ <<toEdge', toWake'>> \in RaiseTimes
          \/ divisor1a' # 0 /\ <<toEdge', toWake'>> \in RaiseTimesNonzero
      BY <2>1, <2>4 DEF DriftInv, RaiseTimes, RaiseTimesNonzero
    <3> QED
      BY <2>1, <2>4, <3>1 DEF DriftInv
  <2>5. CASE pc = "lower"
    <3>1. /\ ~Q1 /\ ~Q0 /\ toWake = 12
          /\ toEdge \in {3, 8} \/ (divisor1a # 0 /\ toEdge \in {9, 4})
      BY <2>1, <2>5 DEF DriftInv
    <3>2. toWake' \in {9, 4} \/ (divisor1a # 0 /\ toWake' \in {3, 8})
      BY <2>1, <2>5, <3>1
    <3>3. (divisor1a = 0 => Q0') /\ (divisor1a # 0 => Q1')
      BY <2>2, <2>3, <2>5, <3>1
    <3> QED
      BY <2>1, <2>5, <3>2, <3>3 DEF DriftInv
  <2>6. CASE pc = "wait"
    <3>1. Q1 /\ (Q1' \/ Q0')
      BY <2>1, <2>3, <2>6 DEF DriftInv
    <3> QED
      BY <2>1, <2>6, <3>1 DEF DriftInv
  <2> QED
    BY <2>1, <2>4, <2>5, <2>6 DEF BenchInv
<1>2. CASE Bench!Raise
  <2>1. /\ UNCHANGED <<Q1, Q0, divisor1a, suite>>
        /\ pc = "raise" /\ pc' = "lower"
        /\ toWake <= toEdge /\ toWake' = 12 /\ toEdge' = toEdge - toWake
    BY <1>2 DEF Bench!Raise, Bench!Wakes, Bench!regs, Bench!Delay
  <2>2. ~Q0 /\ ~Q1
    BY <2>1 DEF BenchInv
  <2>3. toEdge' \in {3, 8} \/ (divisor1a # 0 /\ toEdge' \in {9, 4})
    BY <2>1 DEF DriftInv, RaiseTimes, RaiseTimesNonzero
  <2> QED
    BY <2>1, <2>2, <2>3 DEF DriftInv
<1>3. CASE Bench!Lower
  <2>1. /\ UNCHANGED <<Q1, Q0>>
        /\ pc = "lower" /\ toWake <= toEdge /\ toEdge' = toEdge - toWake
        /\ \/ Q0 /\ Bench!Compare
           \/ /\ ~Q0 /\ pc' = "wait" /\ UNCHANGED <<divisor1a, suite>>
    BY <1>3 DEF Bench!Lower, Bench!Wakes, Bench!regs, Bench!finish_o
  <2>2. CASE Q0 /\ Bench!Compare
    <3>1. divisor1a = 0 /\ toEdge' \in {1, 6}
      BY <2>1, <2>2 DEF DriftInv, BenchInv
    <3> QED
      BY <2>1, <2>2, <3>1, NextLineDrifts
  <2>3. CASE ~Q0 /\ pc' = "wait" /\ UNCHANGED <<divisor1a, suite>>
    <3>1. Q1
      BY <2>1, <2>3 DEF DriftInv
    <3> QED
      BY <2>1, <2>3, <3>1 DEF DriftInv
  <2> QED
    BY <2>1, <2>2, <2>3
<1>4. CASE Bench!WaitReturns
  <2>1. /\ UNCHANGED <<Q1, Q0, toEdge>>
        /\ pc = "wait" /\ Q0 /\ Bench!Compare
    BY <1>4 DEF Bench!WaitReturns, Bench!regs, Bench!finish_o
  <2>2. toEdge' = 10
    BY <2>1 DEF DriftInv
  <2> QED
    BY <2>1, <2>2, NextLineDrifts
<1>5. CASE UNCHANGED Bench!vars
  BY <1>5 DEF Bench!vars, Bench!regs, Bench!inputs, DriftInv
<1> QED
  BY <1>1, <1>2, <1>3, <1>4, <1>5 DEF Bench!Next

(* With a test file that never divides by zero twice in a row no test      *)
(* hangs: however the testbench drifts against the clock, the pulse of     *)
(* start is seen, and no finish passes before the testbench waits for it.  *)
NoTestHangs == ~Hung
THEOREM SparseFilesNeverHang ==
  ASSUME \A s \in Suites : Sparse(s)
  PROVE  AllSpec => []NoTestHangs
<1> DEFINE Inv == setting = "bench" => BenchInv
           Drift == setting = "bench" => DriftInv
<1>1. AllInit => Drift
  <2> SUFFICES ASSUME Bench!Init PROVE DriftInv
    BY DEF AllInit
  <2>1. suite \in Suites /\ pc = "raise" /\ toWake = 12 /\ toEdge = 5
    BY DEF Bench!Init, Bench!Delay
  <2> QED
    BY <2>1 DEF DriftInv, RaiseTimes
<1>2. Inv /\ Drift /\ [AllNext]_allVars => Drift'
  <2> SUFFICES ASSUME Inv, Drift, [AllNext]_allVars, setting' = "bench"
               PROVE  DriftInv'
    OBVIOUS
  <2>1. setting = "bench" /\ [Bench!Next]_(Bench!vars)
    BY DEF AllNext, Only1b, Only1a, OnlyBench, allVars, vars1a, bench,
       Bench!vars, Bench!regs, Bench!inputs
  <2> QED
    BY <2>1, DriftStep
<1>3. Drift => NoTestHangs
  BY DEF NoTestHangs, Hung, DriftInv, Bench!INIT
<1>4. AllSpec => []Inv
  BY BenchRuns
<1> HIDE DEF Inv, Drift
<1> QED
  BY <1>1, <1>2, <1>3, <1>4, PTL DEF AllSpec
=============================================================================
