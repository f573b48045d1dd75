---------------------------------- MODULE Dc ----------------------------------
(***************************************************************************)
(* dc (dc/dc.c): the calculator's numbers and the commands that compute.   *)
(* A number is a row of digits to the base 100, the lowest first, with -1  *)
(* behind the others if it is negative, and how many decimal places of it  *)
(* are behind the point (the last byte of the struct blk).  Registers,     *)
(* strings, other bases and printing are left out.                         *)
(***************************************************************************)
EXTENDS Integers, Sequences, SequencesExt, FiniteSetsExt

CONSTANT DcScripts  \* what may be typed: a sequence of scripts, sequences of sets.
                    \* Numbers are <<"_" or "0", decimal digits, places>>, commands <<"+">>

VARIABLES
    script,     \* the number of the script that is followed
    typed,      \* how much of it has been typed
    command,    \* what has been typed last
    stk,        \* the stack: numbers as records of digits and places
    factor,     \* k, the scale factor
    died        \* NULL or what is not in a block has been used: nothing is known any more

dcVars == <<script, typed, command, stk, factor, died>>

Num(digits, places) == [dig |-> digits, sk |-> places]

-----------------------------------------------------------------------------
(* Digits *)

Digit(p, j) == IF j \in DOMAIN p THEN p[j] ELSE 0
Negative(p) == p # <<>> /\ Last(p) = -1
Zeros(n) == [j \in 1..n |-> 0]

\* The loops with a carry: Step(j, carry) is the digit j and the next carry.
Ripple(n, Step(_, _)) ==
    LET at[j \in 0..n] ==
            IF j = 0 THEN [out |-> <<>>, carry |-> 0]
            ELSE LET before == at[j - 1]
                     now == Step(j, before.carry)
                 IN  [out |-> Append(before.out, now[1]), carry |-> now[2]]
    IN  at[n]
Carried(r) == IF r.carry # 0 THEN Append(r.out, r.carry) ELSE r.out

Trimmed(p) ==
    LET real == {j \in DOMAIN p : p[j] # 0}
    IN  SubSeq(p, 1, IF real = {} THEN 0 ELSE Max(real))

\* The digit behind the last is -1 if something was left to be carried.
Complemented(r) ==
    IF r.carry # 0 THEN Append(IF Last(r.out) = 99 THEN Front(r.out) ELSE r.out, -1)
    ELSE IF r.out # <<>> /\ Last(r.out) = 0 THEN Front(r.out) ELSE r.out
Chsign(p) ==
    Complemented(Ripple(Len(p), LAMBDA j, c : IF p[j] + c <= 0 THEN <<-p[j] - c, 0>>
                                              ELSE <<100 - p[j] - c, 1>>))

Magnitude(p) == IF Negative(p) THEN Chsign(p) ELSE p
Signed(p, minus) == IF minus THEN Chsign(p) ELSE p

\* A -1 takes up the 99 before it, but for the lowest digit.
Shortened(p) ==
    IF ~Negative(p) THEN p
    ELSE LET other == {j \in 1..Len(p) - 1 : p[j] # 99}
         IN  Append(SubSeq(p, 1, IF other = {} THEN 1 ELSE Max(other)), -1)

Add(p, q) ==
    LET sum == Ripple(Max({Len(p), Len(q)}), LAMBDA j, c :
                    LET n == Digit(p, j) + Digit(q, j) + c
                    IN  IF n >= 100 THEN <<n - 100, 1>>
                        ELSE IF n < 0 THEN <<n + 100, -1>> ELSE <<n, 0>>)
    IN  Shortened(Trimmed(Carried(sum)))

\* One row: p times the digit j of q is added to acc.
MultRow(acc, p, digit, offset) ==
    LET row == Ripple(Len(p), LAMBDA j, c :
                    LET n == p[j] * digit + c + Digit(acc, offset + j)
                    IN  <<n % 100, n \div 100>>)
    IN  IF p = <<>> THEN acc ELSE SubSeq(acc, 1, offset) \o Carried(row)
MultMagnitudes(mp, mq) ==
    LET rows[j \in 0..Len(mq)] ==
            IF j = 0 THEN <<>> ELSE MultRow(rows[j - 1], mp, mq[j], j - 1)
    IN  rows[Len(mq)]
Mult(p, q) == Signed(MultMagnitudes(Magnitude(p), Magnitude(q)), Negative(p) # Negative(q))

-----------------------------------------------------------------------------
(* Division: digit by digit, each guessed from the first three of what is   *)
(* left and the first two or three of the divisor, and mostly not too high. *)

\* Mutant: the first digits of the divisor are not taken one higher.
GuessHigh(divd, divr, offset) ==
    LET m == Len(divd)
        n == Len(divr)
        few == Last(divr) < 10
        two == Last(divr) * 100 + Digit(divr, n - 1)
        c == IF few THEN ((two * 100 + Digit(divr, n - 2)) * 2) \div 25 ELSE two
        td == (divd[m] * 100 + Digit(divd, m - 1)) * 100 + Digit(divd, m - 2)
    IN  ((IF offset = 0 THEN td + 1 ELSE td) * (IF few THEN 8 ELSE 1)) \div c

Guess(divd, divr, offset) ==
    LET m == Len(divd)
        n == Len(divr)
        few == Last(divr) < 10
        two == Last(divr) * 100 + Digit(divr, n - 1)
        c == IF few THEN ((two * 100 + Digit(divr, n - 2)) * 2) \div 25 ELSE two
        td == (divd[m] * 100 + Digit(divd, m - 1)) * 100 + Digit(divd, m - 2)
    IN  ((IF offset = 0 THEN td + 1 ELSE td) * (IF few THEN 8 ELSE 1))
            \div (IF offset = 0 THEN c ELSE c + 1)

\* The divisor times a digit
Multiple(divr, dig) ==
    LET r == Ripple(Len(divr), LAMBDA j, c : <<(divr[j] * dig + c) % 100, (divr[j] * dig + c) \div 100>>)
    IN  Append(r.out, r.carry)
Less(divd, offset, divxyz) ==
    Ripple(Len(divd) - offset, LAMBDA j, c :
        LET n == divd[offset + j] - Digit(divxyz, j) - c
        IN  IF n < 0 THEN <<n + 100, 1>> ELSE <<n, 0>>)
\* What has one digit too many keeps it in the digit below, as a hundred.
LeftOver(divd, offset) ==
    IF offset = 0 THEN divd
    ELSE [Front(divd) EXCEPT ![Len(divd) - 1] = @ + (IF Last(divd) > 0 THEN 100 ELSE 0)]

Subtracted(st, offset, dig, less) ==
    [quot |-> <<dig>> \o st.quot, carry |-> less.carry,
     divd |-> LeftOver(SubSeq(st.divd, 1, offset) \o less.out, offset)]
DivDigit(st, offset, divr, dig) ==
    Subtracted(st, offset, dig, Less(st.divd, offset, Multiple(divr, dig)))
DivStep(st, offset, divr) == DivDigit(st, offset, divr, Guess(st.divd, divr, offset))

\* The last guess is corrected, and digits of 100 and more are carried.
QuotOf(p) == Trimmed(Carried(Ripple(Len(p), LAMBDA j, c :
                IF p[j] + c >= 100 THEN <<p[j] + c - 100, 1>> ELSE <<p[j] + c, 0>>)))
DivEnd(st, divr) ==
    IF st.carry = 0 THEN [quot |-> QuotOf(st.quot), rem |-> Trimmed(st.divd)]
    ELSE [quot |-> QuotOf([st.quot EXCEPT ![1] = @ - 1]),
          rem |-> Trimmed(Add(divr, Append(st.divd, -1)))]

DivMagnitudes(divd, divr) ==
    LET n == Len(divd) - Len(divr)
        at[offset \in 0..n + 1] ==
            IF offset > n THEN [quot |-> <<>>, carry |-> 0, divd |-> Append(divd, 0)]
            ELSE DivStep(at[offset + 1], offset, divr)
    IN  IF n < 0 THEN [quot |-> <<>>, rem |-> divd] ELSE DivEnd(at[0], divr)

\* div(), for a divisor that is not empty
SignedBoth(d, quotSign, remSign) == [quot |-> Signed(d.quot, quotSign), rem |-> Signed(d.rem, remSign)]
Div(ddivd, ddivr) ==
    SignedBoth(DivMagnitudes(Magnitude(ddivd), Magnitude(ddivr)),
               Negative(ddivd) # Negative(ddivr), Negative(ddivd))

-----------------------------------------------------------------------------
(* Scales, roots and powers *)

Ten == <<10>>
Two == <<2>>

\* ct places more
Add0(p, ct) ==
    LET q == Zeros(ct \div 2) \o p IN IF ct % 2 = 1 THEN Mult(Ten, q) ELSE q

\* n places less.  What goes of a negative number are digits, too.
Removc(p, n) ==
    LET q == SubSeq(p, n \div 2 + 1, Len(p))
    IN  IF n <= 0 THEN p ELSE IF n % 2 = 1 THEN Div(q, Ten).quot ELSE q

\* The same, and what has gone: behind the end of p the digits are EOF, or -1.
CutOff(p, n) == [j \in 1..n \div 2 |-> IF j \in DOMAIN p THEN p[j] ELSE -1]
TenthLess(gone, tenth) ==
    [kept |-> tenth.quot, irem |-> gone \o (IF tenth.rem = <<>> THEN <<>> ELSE <<Head(tenth.rem)>>)]
Removr(p, n) ==
    IF n % 2 = 1 THEN TenthLess(CutOff(p, n), Div(SubSeq(p, n \div 2 + 1, Len(p)), Ten))
    ELSE [kept |-> SubSeq(p, n \div 2 + 1, Len(p)), irem |-> CutOff(p, n)]

RECURSIVE Squaring(_, _, _)
Squared(half, p, r) ==
    Squaring(half.quot, Mult(p, p), IF half.rem # <<>> THEN Mult(p, r) ELSE r)
Squaring(e, p, r) == IF e = <<>> THEN r ELSE Squared(Div(e, Two), p, r)

\* exp(): nobody calls it with a negative exponent.
Exp(base, ex) == Squaring(ex, base, <<1>>)

RECURSIVE Newton(_, _)
NewtonStep(p, r, q) == IF Negative(Add(Chsign(r), q)) THEN Newton(p, q) ELSE r
Newton(p, r) == NewtonStep(p, r, Div(Add(Div(p, r).quot, r), Two).quot)

\* The first guess is the root of the first two or three decimal digits, and one.
Sqrt(p) ==
    LET n == (Len(p) + 1) \div 2
        c == IF Len(p) % 2 = 1 THEN Last(p) ELSE Last(p) * 100 + p[Len(p) - 1]
        g == CHOOSE i \in 1..100 : i * i > c /\ (i - 1) * (i - 1) <= c
    IN  Newton(p, Zeros(n - 1) \o (IF g >= 100 THEN <<g - 100, 1>> ELSE <<g>>))

\* scale() and readin(), for input in decimal
Scaled(p, n) == Num(Div(Add0(p, n), Exp(Ten, <<n>>)).quot, n)
Readin(digits, places) ==
    LET p == FoldLeft(LAMBDA q, c : Add(IF c = 0 THEN <<>> ELSE <<c>>, Mult(q, Ten)), <<>>, digits)
    IN  IF places = 0 THEN Num(p, 0) ELSE Scaled(p, places)

-----------------------------------------------------------------------------
(* commnds(): one command after the other *)

DcBegin(scripts) ==
    /\ script \in scripts /\ typed = 0
    /\ command = <<"">> /\ stk = <<>> /\ factor = 0 /\ died = FALSE

DcInit == DcBegin(DOMAIN DcScripts)

Below(n) == SubSeq(stk, 1, Len(stk) - n)
Topmost == stk[Len(stk)]
Second == stk[Len(stk) - 1]
Pushed(n, p) == stk' = Append(Below(n), p) /\ UNCHANGED <<factor, died>>

Is(c) == command' = <<c>>

Entered ==
    /\ Len(command') = 3
    /\ LET p == Readin(command'[2], command'[3])
       IN  Pushed(0, Num(Signed(p.dig, command'[1] = "_"), p.sk))

\* eqk() and binop('+')
Sum(p, q) ==
    LET savk == Max({p.sk, q.sk})
    IN  Num(Add(Add0(p.dig, savk - p.sk), Add0(q.dig, savk - q.sk)), savk)

Plus == Is("+") /\ Len(stk) >= 2 /\ Pushed(2, Sum(Topmost, Second))
Minus == Is("-") /\ Len(stk) >= 2 /\ Pushed(2, Sum(Num(Chsign(Topmost.dig), Topmost.sk), Second))

Times ==
    /\ Is("*") /\ Len(stk) >= 2
    /\ LET n == Topmost.sk + Second.sk
           sk == Max({Topmost.sk, Second.sk, factor})
           p == Mult(Topmost.dig, Second.dig)
       IN  Pushed(2, IF n > sk THEN Num(Removc(p, n - sk), sk) ELSE Num(p, n))

\* dscale() has made a number of the right scale of the dividend, and dr is not zero.
Dscale(dd, dr) ==
    LET c == factor - dd.sk + dr.sk
    IN  IF c < 0 THEN Removr(dd.dig, -c) ELSE [kept |-> Add0(dd.dig, c), irem |-> <<>>]
Zero(p) == Digit(p.dig, Len(p.dig)) = 0
Quotient(dd, dr) == Num(Div(Dscale(dd, dr).kept, dr.dig).quot, factor)

Divide == Is("/") /\ Len(stk) >= 2 /\ ~Zero(Topmost) /\ Pushed(2, Quotient(Second, Topmost))

Remainder ==
    /\ Is("%") /\ Len(stk) >= 2 /\ ~Zero(Topmost)
    /\ LET cut == Dscale(Second, Topmost)
           rem == Div(cut.kept, Topmost.dig).rem
           sk == Topmost.sk + factor
       IN  Pushed(2, IF Second.sk <= sk THEN Num(rem, sk)
                     ELSE Num(Add(Add0(rem, Second.sk - sk), cut.irem), Second.sk))

DividedBy0 == (Is("/") \/ Is("%")) /\ Len(stk) >= 2 /\ Zero(Topmost) /\ Pushed(2, Topmost)

\* All digits are 0: Newton() comes to an empty divisor, and the NULL that div()
\* returns for it is used.
SquareRoot ==
    /\ Is("v") /\ stk # <<>> /\ ~Negative(Topmost.dig)
    /\ IF Topmost.dig # <<>> /\ Trimmed(Topmost.dig) = <<>>
       THEN died' = TRUE /\ UNCHANGED <<stk, factor>>
       ELSE LET sk == Max({factor, Topmost.sk})
                n == 2 * sk - Topmost.sk
            IN  Pushed(1, IF Topmost.dig = <<>> THEN Topmost ELSE Num(Sqrt(Add0(Topmost.dig, n)), sk))
NoRoot == Is("v") /\ stk # <<>> /\ Negative(Topmost.dig) /\ stk' = Below(1) /\ UNCHANGED <<factor, died>>

\* Of an exponent 0 there is no digit to be read: it is taken for EOF, or -1.
Power ==
    /\ Is("^") /\ Len(stk) >= 2 /\ Topmost.sk = 0 /\ Len(Magnitude(Topmost.dig)) <= 2
    /\ LET e == Magnitude(Topmost.dig)
           c == IF e = <<>> THEN -1 ELSE e[1] + 100 * Digit(e, 2)
           d == c * Second.sk
           n == Max({factor, Second.sk})
           p == Exp(Second.dig, e)
       IN  IF Negative(Topmost.dig)
           THEN IF Zero(Num(p, d)) THEN Pushed(2, Num(p, d))
                ELSE Pushed(2, Quotient(Num(<<1>>, 0), Num(p, d)))
           ELSE Pushed(2, IF n < d THEN Num(Removc(p, d - n), n) ELSE Num(p, d))

\* An exponent with a scale is gone, and so is one that is too big, with the base.
NoPower ==
    /\ Is("^") /\ Len(stk) >= 2
    /\ \/ Topmost.sk # 0 /\ stk' = Below(1)
       \/ Topmost.sk = 0 /\ Len(Magnitude(Topmost.dig)) > 2 /\ stk' = Below(2)
    /\ UNCHANGED <<factor, died>>

\* k, for what is not negative
Scale ==
    /\ Is("k") /\ stk # <<>>
    /\ LET p == Removc(Topmost.dig, Topmost.sk)
       IN  ~Negative(p) /\ factor' = IF Len(p) > 1 THEN factor ELSE Digit(p, 1)
    /\ stk' = Below(1) /\ UNCHANGED died

\* Too little is on the stack.  What was there goes back to it: of - with its
\* sign changed, of ^ without its places, so that its highest digit is taken for
\* them; of a 0 there is nothing left then, and what follows is undefined.
TooFew ==
    /\ \E c \in {"+", "-", "*", "/", "%", "^"} : Is(c) /\ Len(stk) < 2
    /\ stk' = IF stk = <<>> THEN stk
              ELSE CASE Is("-") -> <<Num(Chsign(Topmost.dig), Topmost.sk)>>
                     [] Is("^") -> IF Topmost.sk # 0 \/ Topmost.dig = <<>> THEN <<>>
                                   ELSE <<Num(Front(Topmost.dig), Last(Topmost.dig))>>
                     [] OTHER -> stk
    /\ died' = (Is("^") /\ stk = <<Num(<<>>, 0)>>)
    /\ UNCHANGED factor
ShortOfOne == (Is("v") \/ Is("k")) /\ stk = <<>> /\ UNCHANGED <<stk, factor, died>>

DcNext ==
    /\ typed < Len(DcScripts[script]) /\ ~died
    /\ typed' = typed + 1 /\ command' \in DcScripts[script][typed'] /\ UNCHANGED script
    /\ \/ Entered \/ Plus \/ Minus \/ Times \/ Divide \/ Remainder \/ DividedBy0
       \/ SquareRoot \/ NoRoot \/ Power \/ NoPower \/ Scale \/ TooFew \/ ShortOfOne

DcSpec == DcInit /\ [][DcNext]_dcVars

-----------------------------------------------------------------------------
(* Properties *)

\* The digits are digits, and only the last may be the sign.
DcTypeOK ==
    /\ factor \in 0..99 /\ died \in BOOLEAN
    /\ \A i \in DOMAIN stk :
        /\ stk[i].sk \in -127..127
        /\ \A j \in DOMAIN stk[i].dig :
            stk[i].dig[j] \in 0..99 \/ (j = Len(stk[i].dig) /\ stk[i].dig[j] = -1)

ValueOf(p) ==
    LET v[j \in 0..Len(p.dig)] == IF j = Len(p.dig) THEN 0 ELSE v[j + 1] * 100 + p.dig[j + 1]
    IN  v[0]
\* The number as a multiple of 10^-places
As(p, places) == ValueOf(p) * 10 ^ (places - p.sk)
Abs(x) == IF x < 0 THEN -x ELSE x
TowardZero(x, y) == IF (x < 0) # (y < 0) THEN -(Abs(x) \div Abs(y)) ELSE Abs(x) \div Abs(y)

\* r is x / y with so many places: exactly, what is beyond them being dropped, or,
\* where digits of a negative number have been dropped, to less than one in the last.
Cut(r, places, x, y, negative) ==
    /\ r.sk = places
    /\ IF negative THEN Abs(ValueOf(r) * y - x) < Abs(y) ELSE ValueOf(r) = TowardZero(x, y)

QuotientRight(dd, dr, r) ==
    LET c == factor - dd.sk + dr.sk
    IN  Cut(r, factor, ValueOf(dd) * 10 ^ Max({c, 0}), ValueOf(dr) * 10 ^ Max({-c, 0}),
            c < 0 /\ ValueOf(dd) < 0)

\* The dividend less the divisor as often as the quotient says, where the dividend is
\* not cut or has digits enough to be cut.
RemainderRight(dd, dr, r) ==
    LET sk == Max({dr.sk + factor, dd.sk})
        c == factor - dd.sk + dr.sk
        often == TowardZero(ValueOf(dd) * 10 ^ Max({c, 0}), ValueOf(dr) * 10 ^ Max({-c, 0}))
    IN  \/ c < 0 /\ (ValueOf(dd) < 0 \/ Len(dd.dig) < (-c) \div 2)
        \/ r.sk = sk /\ ValueOf(r) = As(dd, sk) - often * As(dr, sk - factor)

PowerRight(base, ex, r) ==
    LET e == ValueOf(ex)
        d == base.sk * Abs(e)
        x == ValueOf(base) ^ Abs(e)
        n == Min({d, Max({factor, base.sk})})
    IN  CASE e > 0 -> Cut(r, n, x, 10 ^ (d - n), x < 0)
          [] e = 0 -> base.sk = 0 => r.sk = 0 /\ ValueOf(r) = 1
          [] e < 0 -> Cut(r, factor, 10 ^ (factor + d), x, FALSE)

RootRight(p, r) ==
    LET x == As(p, 2 * r.sk)
        v == ValueOf(r)
    IN  IF ValueOf(p) = 0 THEN r = p
        ELSE r.sk = Max({factor, p.sk}) /\ v * v <= x /\ x < (v + 1) * (v + 1)

\* What a command leaves on the stack is the sum, the product, the quotient, the
\* remainder, the power or the root of what it has found there, with as many places
\* as the scale factor and the operands say.  LeftOver out are what goes wrong: the
\* remainder of a dividend that is cut and negative or too short for it, the power 0
\* of what has places, and the root of a zero made of digits.
ComputesTwo(dr, dd, r) ==
    LET sk == Max({dr.sk, dd.sk})
        n == dr.sk + dd.sk
        x == ValueOf(dr) * ValueOf(dd)
    IN  CASE Is("+") -> r.sk = sk /\ ValueOf(r) = As(dd, sk) + As(dr, sk)
          [] Is("-") -> r.sk = sk /\ ValueOf(r) = As(dd, sk) - As(dr, sk)
          [] Is("*") -> LET places == Min({n, Max({sk, factor})})
                        IN  Cut(r, places, x, 10 ^ (n - places), x < 0)
          [] Is("/") /\ ~Zero(dr) -> QuotientRight(dd, dr, r)
          [] Is("%") /\ ~Zero(dr) -> RemainderRight(dd, dr, r)
          [] Is("^") /\ dr.sk = 0 /\ (ValueOf(dr) >= 0 \/ ValueOf(dd) # 0) -> PowerRight(dd, dr, r)
          [] OTHER -> TRUE
DcComputes ==
    [][/\ ~died' /\ Len(stk) >= 2 /\ Len(stk') = Len(stk) - 1 =>
             ComputesTwo(Topmost, Second, stk'[Len(stk')])
       /\ ~died' /\ Is("v") /\ stk # <<>> /\ Len(stk') = Len(stk) => RootRight(Topmost, Topmost')]_dcVars

=============================================================================
