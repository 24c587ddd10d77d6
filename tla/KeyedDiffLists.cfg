SPECIFICATION ForSpec
CONSTANTS
  Key = {ka, kb, kc, kd}
  Tag = {p, q, card}
  PropsTags = {card}
  ka = ka
  kb = kb
  kc = kc
  kd = kd
  p = p
  q = q
  card = card
  a1 = a1
  a2 = a2
  a3 = a3
  b1 = b1
  b2 = b2
  None = None
  Lists <- AllLists
  Item <- Items
  KeyOf <- ItemKey
  RowOf <- ItemRow
  ItemLists <- SomeItems
  MaxGen = 1
VIEW UpToIDs
INVARIANTS InPlace RowsShowTheirItems
PROPERTIES KeysKeepNodes MovesAreFewest
