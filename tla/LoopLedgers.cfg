CONSTANTS
  Size = 3
  PolyMin = 2
  Prices = {1, 2}
  MaxSessionLoss <- Losing
  MaxOpens = 2
  MaxHeld = 4
SPECIFICATION Spec
INVARIANTS LedgersAgree SellsThePosition MoneyIsConserved
