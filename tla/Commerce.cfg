SPECIFICATION FairSpec
CONSTANTS
  usd = usd
  USD = USD
  eur = eur
  shop = shop
  bazaar = bazaar
  Star = Star
  Buyers = {b1, b2}
  Grants <- MCGrants
  Orders <- MCOrders
  Scopes <- MCScopes
  Checkout <- MCCheckout
  Currencies = {usd, USD, eur}
  Fold <- MCFold
  Merchants = {shop, bazaar}
  WalletLists <- MCWalletLists
  MaxWallets = 2
  MaxKey = 2
  NaN = NaN
  None = None
INVARIANTS BudgetHolds PaidOnTerms
PROPERTIES RefusalStands PurchaseEnds
