SPECIFICATION Spec
CONSTANTS
  w1 = w1  w2 = w2  net = net  r1 = r1  r2 = r2  a = a  b = b  e = e
  Workers = {w1, w2}
  Net = net
  Connections = {r1, r2}
  Areas = {a, b}
  TileOf <- McTileOf
  MaxQueue = 1
  NoConnection = NoConnection
  NoArea = NoArea
  NoTile = NoTile
INVARIANT
  BuffersValid
