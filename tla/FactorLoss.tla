----------------------------- MODULE FactorLoss -----------------------------
(***************************************************************************)
(* The losses: Loss of the factorization machine (src/difacto/loss.h),     *)
(* ScalarLoss and its subclasses of linear (src/linear/loss.h), and        *)
(* BinClassEval (src/base/binary_class_evaluation.h).                      *)
(*                                                                         *)
(* The model is one array: for the feature i, sizes[i] entries, none, its  *)
(* weight, or its weight and dim entries of its embedding.  Numbers are    *)
(* integers and predictions are counted twice, which leaves out the .5 of  *)
(* the code.  The dual -y / (1 + exp(y * py)) is any number per row.       *)
(* Dropout and the normalization of gradients, both off by default, are    *)
(* left out.                                                               *)
(***************************************************************************)
EXTENDS Integers, FiniteSets, Sequences, SequencesExt, RowBlocks

SumSeq(s) == FoldLeft(LAMBDA a, b : a + b, 0, s)
StartOf(sizes, i) == SumSeq(SubSeq(sizes, 1, i - 1))        \* p, before the feature i

\* Data::Load for w: the weights, 0 for a feature without entries, and their places, -1 for none
LoadW(model, sizes) ==
    [pos |-> [i \in DOMAIN sizes |-> IF sizes[i] = 0 THEN -1 ELSE StartOf(sizes, i)],
     weight |-> [i \in DOMAIN sizes |-> IF sizes[i] = 0 THEN 0 ELSE model[StartOf(sizes, i) + 1]]]

\* mutant of LoadV: embeddings are read one place too early, from the weight on
MutLoadV(model, sizes, dim) ==
    LET with == SelectSeq([i \in DOMAIN sizes |-> i], LAMBDA i : sizes[i] = dim + 1)
        pos == [k \in DOMAIN with |-> StartOf(sizes, with[k]) + 1]
    IN  [cols |-> with, pos |-> pos, weight |-> [k \in DOMAIN with |-> SubSeq(model, pos[k], pos[k] + dim - 1)]]

\* Data::Load for V: the features that have an embedding, and their places behind the weights
LoadV(model, sizes, dim) ==
    LET with == SelectSeq([i \in DOMAIN sizes |-> i], LAMBDA i : sizes[i] = dim + 1)
        pos == [k \in DOMAIN with |-> StartOf(sizes, with[k]) + 1]
    IN  [cols |-> with, pos |-> pos, weight |-> [k \in DOMAIN with |-> SubSeq(model, pos[k] + 1, pos[k] + dim)]]

\* the columns of the block that have an embedding, numbered anew
PickColumns(blk, cols) ==
    LET kept(i) == SelectSeq([j \in 1 .. Len(blk.index) |-> j], LAMBDA j : j \in Rows(blk, i) /\ blk.index[j] + 1 \in ToSet(cols))
        new(j) == (CHOOSE k \in DOMAIN cols : cols[k] = blk.index[j] + 1) - 1
        row(i) == [label |-> blk.label[i], index |-> [n \in DOMAIN kept(i) |-> new(kept(i)[n])],
                   value |-> IF blk.value = <<>> THEN <<>> ELSE [n \in DOMAIN kept(i) |-> blk.value[kept(i)[n]]]]
    IN  BlockOf([i \in 1 .. Size(blk) |-> row(i)])
Squared(blk) == [blk EXCEPT !.value = [j \in DOMAIN @ |-> @[j] * @[j]]]

Zeros(n) == [i \in 1 .. n |-> 0]
Column(weight, j) == [k \in DOMAIN weight |-> weight[k][j]]
SquareAll(v) == [k \in DOMAIN v |-> v[k] * v[k]]

\* Evaluate: 2 * py
Predict(blk, model, sizes, dim, nt) ==
    LET w == LoadW(model, sizes)
        v == LoadV(model, sizes, dim)
        x == PickColumns(blk, v.cols)
        xw == Times(blk, w.weight, Zeros(Size(blk)), nt)
        xv(j) == Times(x, Column(v.weight, j), Zeros(Size(blk)), nt)
        xxvv(j) == Times(Squared(x), SquareAll(Column(v.weight, j)), Zeros(Size(blk)), nt)
    IN  [i \in 1 .. Size(blk) |->
           2 * xw[i] + IF dim = 0 \/ v.cols = <<>> THEN 0 ELSE SumSeq([j \in 1 .. dim |-> xv(j)[i] * xv(j)[i] - xxvv(j)[i]])]

\* the clipping of the gradients of V
Clip(g, gc) == IF gc = 0 THEN g ELSE IF g > gc THEN gc ELSE IF g < -gc THEN -gc ELSE g

\* CalcGrad, and Data::Save into the array of the gradients
CalcGrad(blk, model, sizes, dim, p, gc, nt) ==
    LET w == LoadW(model, sizes)
        v == LoadV(model, sizes, dim)
        x == PickColumns(blk, v.cols)
        m == Len(v.cols)
        gw == TransTimes(blk, p, Len(sizes), nt)
        xxp == TransTimes(Squared(x), p, m, nt)
        pxv(j) == LET xv == Times(x, Column(v.weight, j), Zeros(Size(blk)), nt) IN [i \in DOMAIN p |-> xv[i] * p[i]]
        gv(j) == LET xpxv == TransTimes(x, pxv(j), m, nt) IN [k \in 1 .. m |-> Clip(xpxv[k] - xxp[k] * v.weight[k][j], gc)]
        at(q) == {k \in 1 .. m : q \in v.pos[k] + 1 .. v.pos[k] + dim}
    IN  [q \in DOMAIN model |->
           IF \E k \in 1 .. m : k \in at(q) THEN LET k == CHOOSE k \in at(q) : TRUE IN gv(q - v.pos[k])[k]
           ELSE LET i == CHOOSE i \in DOMAIN sizes : w.pos[i] = q - 1 IN gw[i]]
-----------------------------------------------------------------------------
(* The losses of linear: a weight per feature                              *)

Sign(label) == IF label > 0 THEN 1 ELSE -1
Greater(a, b) == IF a > b THEN a ELSE b

\* ScalarLoss::Init.  nt is read before it is set: any number of threads.
InitLoss(blk, w, nt) == [data |-> blk, Xw |-> Times(blk, w, Zeros(Size(blk)), nt)]

\* LogitLoss::CalcGrad, with the dual of each row a number of the sign of -y
LogitDual(loss, size) == [i \in DOMAIN loss.Xw |-> -Sign(loss.data.label[i]) * size[i]]
LogitGrad(loss, size, dim, nt) == TransTimes(loss.data, LogitDual(loss, size), dim, nt)

\* SquareHingeLoss::Evaluate and CalcGrad.  The gradient has the rows that are beyond the margin.
HingeObjv(loss) ==
    LET tmp(i) == Greater(1 - Sign(loss.data.label[i]) * loss.Xw[i], 0) IN SumSeq([i \in DOMAIN loss.Xw |-> tmp(i) * tmp(i)])
HingeDual(loss) ==
    [i \in DOMAIN loss.Xw |-> LET y == Sign(loss.data.label[i]) IN IF y * loss.Xw[i] > 1 THEN y ELSE 0]
HingeGrad(loss, dim, nt) ==
    LET g == TransTimes(loss.data, HingeDual(loss), dim, nt) IN [j \in DOMAIN g |-> -2 * g[j]]
-----------------------------------------------------------------------------
(* BinClassEval                                                            *)

\* the orders in which std::sort may leave the rows
SortedOrders(pred) ==
    {o \in [DOMAIN pred -> DOMAIN pred] :
        /\ \A a, b \in DOMAIN pred : a # b => o[a] # o[b]
        /\ \A a \in 1 .. Len(pred) - 1 : pred[o[a]] <= pred[o[a + 1]]}

\* AUC for an order, over <<tp, n - tp>>: <<area, pairs>>, 1 if there are no pairs
AUC(label, order) ==
    LET labels == [i \in DOMAIN order |-> label[order[i]]]
        step(s, l) == IF l > 0 THEN [s EXCEPT !.tp = @ + 1] ELSE [s EXCEPT !.area = @ + s.tp]
        end == FoldLeft(step, [area |-> 0, tp |-> 0], labels)
        pairs == end.tp * (Len(label) - end.tp)
    IN  IF pairs = 0 THEN <<1, 1>> ELSE <<IF 2 * end.area < pairs THEN pairs - end.area ELSE end.area, pairs>>

\* Accuracy, over n
Accuracy(label, pred, threshold) ==
    LET n == Len(label)
        correct == Cardinality({i \in DOMAIN label : label[i] > 0 <=> pred[i] > threshold})
    IN  IF 2 * correct > n THEN correct ELSE n - correct
-----------------------------------------------------------------------------
WeightOf(model, sizes, i) == IF sizes[i] = 0 THEN 0 ELSE model[StartOf(sizes, i) + 1]
Embedding(model, sizes, dim, i) ==
    [j \in 1 .. dim |-> IF sizes[i] = dim + 1 THEN model[StartOf(sizes, i) + 1 + j] ELSE 0]

\* The prediction is that of a factorization machine, by its definition: the weights, and the
\* products of the embeddings of every two features of a row; and the gradient of every entry of the
\* model is the derivative of the predictions, summed over the rows with their duals.
LossRight(blk, model, sizes, dim, p, gc) ==
    LET X(j) == ValueAt(blk, j)
        feat(j) == blk.index[j] + 1
        V(j) == Embedding(model, sizes, dim, feat(j))
        two(i) == {<<e, f>> \in Rows(blk, i) \X Rows(blk, i) : e # f}
        dot(e, f) == SumSeq([j \in 1 .. dim |-> V(e)[j] * V(f)[j]])
        py(i) == 2 * SumOver(Rows(blk, i), LAMBDA e : X(e) * WeightOf(model, sizes, feat(e)))
                   + SumOver(two(i), LAMBDA ef : X(ef[1]) * X(ef[2]) * dot(ef[1], ef[2]))
        dw(k) == SumOver({<<i, e>> \in (1 .. Size(blk)) \X DOMAIN blk.index : e \in Rows(blk, i) /\ feat(e) = k},
                         LAMBDA ie : p[ie[1]] * X(ie[2]))
        dv(k, j) == SumOver({<<i, e, f>> \in (1 .. Size(blk)) \X (DOMAIN blk.index) \X (DOMAIN blk.index) :
                                <<e, f>> \in two(i) /\ feat(e) = k},
                            LAMBDA ief : p[ief[1]] * X(ief[2]) * X(ief[3]) * V(ief[3])[j])
    IN  \A nt \in {1, 2} :
          LET grad == CalcGrad(blk, model, sizes, dim, p, gc, nt)
          IN  /\ Predict(blk, model, sizes, dim, nt) = [i \in 1 .. Size(blk) |-> py(i)]
              /\ \A k \in DOMAIN sizes :
                    /\ sizes[k] > 0 => grad[StartOf(sizes, k) + 1] = dw(k)
                    /\ dim > 0 /\ sizes[k] = dim + 1 => \A j \in 1 .. dim : grad[StartOf(sizes, k) + 1 + j] = Clip(dv(k, j), gc)

\* The losses of linear, whatever numbers of threads compute them: the prediction is that of a
\* factorization machine without embeddings, so is the gradient of LogitLoss; SquareHingeLoss is zero
\* if and only if no row is within the margin.  Of its gradient it is only said that it does not
\* depend on the threads: CalcGrad takes the rows beyond the margin, where the loss is zero.
LinearRight(blk, w, size) ==
    LET n == Len(w)
        ones == [i \in 1 .. n |-> 1]
        within(loss) == {i \in DOMAIN loss.Xw : Sign(blk.label[i]) * loss.Xw[i] < 1}
    IN  \A nt0, nt \in {1, 2, 3} :
          LET loss == InitLoss(blk, w, nt0)
          IN  /\ [i \in DOMAIN loss.Xw |-> 2 * loss.Xw[i]] = Predict(blk, w, ones, 0, 1)
              /\ LogitGrad(loss, size, n, nt) = CalcGrad(blk, w, ones, 0, LogitDual(loss, size), 0, 1)
              /\ HingeObjv(loss) = 0 <=> within(loss) = {}
              /\ HingeGrad(loss, n, nt) = HingeGrad(loss, n, 1)

\* AUC is the share of the pairs of a positive and a negative row that the predictions order, in the
\* better of the two directions, ties counting for either; an accuracy is never below one half.
EvalRight(label, pred) ==
    LET pos == {i \in DOMAIN label : label[i] > 0}
        pairs == pos \X (DOMAIN label \ pos)
        below == Cardinality({ab \in pairs : pred[ab[1]] < pred[ab[2]]})
        above == Cardinality({ab \in pairs : pred[ab[1]] > pred[ab[2]]})
        all == Cardinality(pairs)
    IN  /\ \A o \in SortedOrders(pred) :
              LET a == AUC(label, o)
              IN  IF all = 0 THEN a = <<1, 1>>
                  ELSE /\ a[2] = all /\ 2 * a[1] >= all
                       /\ a[1] \in (below .. all - above) \cup (above .. all - below)
        /\ 2 * Accuracy(label, pred, 0) >= Len(label)
=============================================================================
