------------------------------ MODULE Rectangles ------------------------------
(* basic_rect: rectangles with their borders, in whole coordinates. *)
EXTENDS Integers, SequencesExt

Point(px, py) == [x |-> px, y |-> py]
Smaller(a, b) == IF a <= b THEN a ELSE b
Larger(a, b)  == IF a >= b THEN a ELSE b

\* The division of C++ and the conversion to an integer drop what is behind the point.
Quotient(a, b) == IF a >= 0 THEN a \div b ELSE -((-a) \div b)

Points == [x : Int, y : Int]
\* A rectangle has no border beyond the opposite one.
Rects  == {r \in [minX : Int, minY : Int, maxX : Int, maxY : Int] :
             r.minX <= r.maxX /\ r.minY <= r.maxY}

\* The constructor from two corners.
Rect(x0, y0, x1, y1) ==
    [minX |-> Smaller(x0, x1), minY |-> Smaller(y0, y1),
     maxX |-> Larger(x0, x1), maxY |-> Larger(y0, y1)]
Sized(p, width, height) ==
    [minX |-> p.x, minY |-> p.y, maxX |-> p.x + width, maxY |-> p.y + height]
PointRect(p) == Rect(p.x, p.y, p.x, p.y)

translate(r, dx, dy) ==
    [minX |-> r.minX + dx, minY |-> r.minY + dy, maxX |-> r.maxX + dx,
     maxY |-> r.maxY + dy]
grow(r, dx, dy) ==
    [minX |-> r.minX - dx, minY |-> r.minY - dy, maxX |-> r.maxX + dx,
     maxY |-> r.maxY + dy]

enclose(r, other) ==
    [minX |-> Smaller(r.minX, other.minX), minY |-> Smaller(r.minY, other.minY),
     maxX |-> Larger(r.maxX, other.maxX), maxY |-> Larger(r.maxY, other.maxY)]
BoundingBox(rects) == FoldLeft(enclose, Head(rects), rects)

getWidth(r)  == r.maxX - r.minX
getHeight(r) == r.maxY - r.minY
getArea(r)   == getHeight(r) * getWidth(r)
getCenter(r) == Point(Quotient(r.minX + r.maxX, 2), Quotient(r.minY + r.maxY, 2))

\* Rectangles that only touch have the empty one as their intersection.
getIntersection(r, other) ==
    LET x0 == Larger(other.minX, r.minX)  y0 == Larger(other.minY, r.minY)
        x1 == Smaller(other.maxX, r.maxX) y1 == Smaller(other.maxY, r.maxY)
    IN  IF x0 >= x1 \/ y0 >= y1 THEN Rect(0, 0, 0, 0) ELSE Rect(x0, y0, x1, y1)

between(min, value, max) == min <= value /\ value <= max

contains(r, other) ==
    /\ between(r.minX, other.minX, r.maxX) /\ between(r.minX, other.maxX, r.maxX)
    /\ between(r.minY, other.minY, r.maxY) /\ between(r.minY, other.maxY, r.maxY)

\* mutant: what reaches over both borders is missed
IntersectsInside(r, other) ==
    /\ between(r.minX, other.maxX, r.maxX) \/ between(r.minX, other.minX, r.maxX)
    /\ between(r.minY, other.maxY, r.maxY) \/ between(r.minY, other.minY, r.maxY)
\* One border lies between the other's, in each direction.
intersects(r, other) ==
    /\ \/ between(r.minX, other.maxX, r.maxX) \/ between(r.minX, other.minX, r.maxX)
       \/ between(other.minX, r.maxX, other.maxX)
       \/ between(other.minX, r.minX, other.maxX)
    /\ \/ between(r.minY, other.maxY, r.maxY) \/ between(r.minY, other.minY, r.maxY)
       \/ between(other.minY, r.maxY, other.maxY)
       \/ between(other.minY, r.minY, other.maxY)
=============================================================================
