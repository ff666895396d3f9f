------------------------------ MODULE MCOffice ------------------------------
(***************************************************************************)
(* What a business keeps, on small instances: invoices, quotes, contracts, *)
(* discount codes, prices and refunds, the roles of its team, invitations  *)
(* to it, and the session of a browser signed in to it.                    *)
(*                                                                         *)
(* The eight components share no state.  A behaviour therefore lets one of *)
(* them run, in the circumstances that `under' names, and leaves the       *)
(* others as they are initially: every property is of one component.       *)
(***************************************************************************)
EXTENDS Naturals, Sequences, FiniteSets

CONSTANTS r1, None               \* model values

CONSTANTS                       \* of invoices, the team, invitations, sessions, contracts,
                                \* discounts, quotes, prices
  PaidBookings, DueBookings, InvoicesBefore, FirstLongNumber,
  TeamUsers, TeamFounders, TeamRequests, MaxTeamChanges, MaxTeamRaces,
  MaxInvites, MaxInviteDeaths,
  SessionTabs, MaxSessionPairs, MaxSessionExpiries, MaxTabPairs, MaxTabExpiries,
  ContractStaff, ContractVisitors, MaxStaffSignatures, MaxPortalSignatures,
  UsedDiscounts, WrittenDiscounts, DiscountCodes, DiscountSessions, DiscountPrice, DiscountWorkers,
  UsedLimits, WrittenLimits, MaxDiscountTime, MaxDiscountUses,
  QuoteEditors, MaxQuoteVersions, MaxQuoteItems, MaxRacedItems, QuotePrices, RacedPrices, MaxQuoteDeaths,
  FreeHours, LateFees, HoursWithoutRefund, DepositAmounts, HourPrices, FixedPrices, BookedMinutes,
  HighFee, LowFee, ReferralPercent, ReferralCap, HoursBefore, MaxIntents, MaxMoneyBookings

VARIABLES
  under,
  invoiceBooking, invoiceDue, invoiceReceived, invoiceRead, invoiceAt,
  invoiceSaw, invoiceNumber, invoiceInvoices, invoicePdf, invoiceByHand,
  invoiceJob,
  quoteQuotes, quoteReq, quoteMade, quoteDeaths,
  contractStatus, contractSignatures, contractRequired, contractOwn,
  contractReq,
  discountRow, discountTime, discountWorker, discountRedeemed,
  discountCharged,
  moneyService, moneyBookings, moneyPayments, moneyRefused,
  teamRole, teamCache, teamReq, teamChanges,
  inviteInvitations, inviteExpired, inviteMember, inviteReq, inviteDeaths,
  sessionJar, sessionAlive, sessionUsed, sessionPairs, sessionExpiries,
  sessionPage, sessionReq, sessionLost

invoiceVars  == <<invoiceBooking, invoiceDue, invoiceReceived, invoiceRead,
                  invoiceAt, invoiceSaw, invoiceNumber, invoiceInvoices,
                  invoicePdf, invoiceByHand, invoiceJob>>
quoteVars    == <<quoteQuotes, quoteReq, quoteMade, quoteDeaths>>
contractVars == <<contractStatus, contractSignatures, contractRequired,
                  contractOwn, contractReq>>
discountVars == <<discountRow, discountTime, discountWorker,
                  discountRedeemed, discountCharged>>
moneyVars    == <<moneyService, moneyBookings, moneyPayments, moneyRefused>>
teamVars     == <<teamRole, teamCache, teamReq, teamChanges>>
inviteVars   == <<inviteInvitations, inviteExpired, inviteMember,
                  inviteReq, inviteDeaths>>
sessionVars  == <<sessionJar, sessionAlive, sessionUsed, sessionPairs,
                  sessionExpiries, sessionPage, sessionReq, sessionLost>>
vars == <<under, invoiceVars, quoteVars, contractVars, discountVars,
          moneyVars, teamVars, inviteVars, sessionVars>>

(* Bookings confirmed by their payments; or some that staff or a payment     *)
(* confirms, that become due and whose invoices staff may mark paid.  The    *)
(* numbers of the month are about to have more digits than are padded to.    *)
Invoices(Due) == INSTANCE InvoiceBook WITH
  Bookings <- IF Due THEN DueBookings ELSE PaidBookings, Passing <- Due,
  Base <- 10, FirstLong <- FirstLongNumber, Used <- InvoicesBefore,
  Sources <- IF Due THEN {"staff", "card"} ELSE {"card"}, Serial <- FALSE,
  booking <- invoiceBooking, due <- invoiceDue,
  received <- invoiceReceived, read <- invoiceRead, at <- invoiceAt,
  saw <- invoiceSaw, number <- invoiceNumber, invoices <- invoiceInvoices,
  pdf <- invoicePdf, byHand <- invoiceByHand, job <- invoiceJob

(* Edits at once, or one at a time that may die.                           *)
Quotes(Alone) == INSTANCE QuoteBook WITH
  Requests <- IF Alone THEN {r1} ELSE QuoteEditors, MaxVersions <- MaxQuoteVersions,
  MaxItems <- IF Alone THEN MaxQuoteItems ELSE MaxRacedItems,
  Prices <- IF Alone THEN QuotePrices ELSE RacedPrices, MaxDeaths <- IF Alone THEN MaxQuoteDeaths ELSE 0,
  quotes <- quoteQuotes, req <- quoteReq, made <- quoteMade,
  deaths <- quoteDeaths

(* Requests of staff; or some, with the client at the portal and a           *)
(* template that changes.  The client alone signs, or the company once or    *)
(* twice too.                                                                *)
Contract(Staff) == INSTANCE ContractSigning WITH
  Requests <- IF Staff THEN ContractStaff ELSE ContractVisitors,
  Requirements <- {[CLIENT |-> 1, COMPANY_REP |-> n] : n \in 0 .. 2},
  MaxSignatures <- IF Staff THEN MaxStaffSignatures ELSE MaxPortalSignatures,
  PortalAtOnce <- IF Staff THEN 0 ELSE 1, TemplateChanges <- ~Staff,
  status <- contractStatus, signatures <- contractSignatures,
  required <- contractRequired, own <- contractOwn, req <- contractReq

(* Discounts that are used, by requests at once; or more of them, that are   *)
(* written and not used.                                                     *)
Discount(Three) == INSTANCE DiscountUse WITH
  None <- None, Price <- DiscountPrice, Codes <- DiscountCodes,
  Discounts <- IF Three THEN WrittenDiscounts ELSE UsedDiscounts,
  Sessions <- DiscountSessions, Workers <- DiscountWorkers,
  Limits <- IF Three THEN WrittenLimits ELSE UsedLimits,
  MaxTime <- IF Three THEN 0 ELSE MaxDiscountTime, MaxUses <- MaxDiscountUses,
  row <- discountRow, time <- discountTime, worker <- discountWorker,
  redeemed <- discountRedeemed, charged <- discountCharged

NoTiers  == [kind |-> "none", rows |-> <<>>]
Object   == [kind |-> "object", rows |-> <<>>]
Policies == [free: FreeHours, type: {"percentage", "fixed"}, amount: LateFees, none: HoursWithoutRefund] \cup {None}
Deposits == {None} \cup [type: {"PERCENTAGE", "FIXED"}, amount: DepositAmounts]
Half     == [free |-> 1, type |-> "percentage", amount |-> 50, none |-> 0]

(* What the documentation shows: tiers as an array, a deposit and a policy   *)
(* under other names.                                                        *)
DocForms ==
  {[model |-> "TIERED", base |-> 3, tiers |-> [kind |-> "array", rows |-> <<[min |-> 1, max |-> 2, price |-> 2]>>],
    deposit |-> None, policy |-> None],
   [model |-> "FIXED", base |-> 3, tiers |-> NoTiers, deposit |-> [type |-> "PERCENTAGE", amount |-> None], policy |-> None],
   [model |-> "FIXED", base |-> 3, tiers |-> NoTiers, deposit |-> None,
    policy |-> [free |-> None, type |-> None, amount |-> None, none |-> None]]}

(* Every combination the API takes of these numbers.                         *)
AllForms ==
  [model: {"FIXED", "HOURLY", "TIERED"}, base: HourPrices, tiers: {Object}, deposit: {None}, policy: Policies]
    \cup [model: {"FIXED"}, base: FixedPrices, tiers: {NoTiers}, deposit: Deposits, policy: {None}]

(* A deposit of half the price, and half of it back.                         *)
TwoForms ==
  {[model |-> "FIXED", base |-> 100, tiers |-> NoTiers,
    deposit |-> [type |-> "PERCENTAGE", amount |-> 50], policy |-> Half],
   [model |-> "HOURLY", base |-> 3, tiers |-> NoTiers,
    deposit |-> [type |-> "FIXED", amount |-> 0], policy |-> None]}

(* Every form, one payment; or two forms or those of the documentation, and  *)
(* two payments.                                                             *)
Money(Wide, Doc) == INSTANCE BookingMoney WITH
  None <- None, Forms <- IF Wide THEN AllForms ELSE IF Doc THEN DocForms ELSE TwoForms, Duration <- BookedMinutes,
  Guests <- {1}, FeePercent <- IF Wide THEN HighFee ELSE LowFee, CommissionPercent <- ReferralPercent,
  CommissionCap <- ReferralCap, MaxHours <- IF Wide THEN HoursBefore ELSE 1,
  Attempts <- IF Wide THEN 1 ELSE MaxIntents, MaxBookings <- MaxMoneyBookings,
  service <- moneyService, bookings <- moneyBookings,
  payments <- moneyPayments, refused <- moneyRefused

(* Owners and staff, one request at a time; or owners, requests at once, and *)
(* a cache that may not answer.                                              *)
Team(Alone) == INSTANCE TeamRoles WITH
  Users <- IF Alone THEN TeamUsers ELSE TeamFounders, Founders <- TeamFounders,
  Requests <- IF Alone THEN {r1} ELSE TeamRequests,
  MaxChanges <- IF Alone THEN MaxTeamChanges ELSE MaxTeamRaces,
  Unreachable <- ~Alone,
  role <- teamRole, cache <- teamCache, req <- teamReq,
  changes <- teamChanges

(* One request at a time, of which some die.                                 *)
Invite == INSTANCE TeamInvitation WITH
  Requests <- {r1}, MaxInvitations <- MaxInvites, MaxDeaths <- MaxInviteDeaths,
  invitations <- inviteInvitations, expired <- inviteExpired,
  member <- inviteMember, req <- inviteReq, deaths <- inviteDeaths

(* One tab, or several tabs and answers that are lost.                       *)
Session(OneTab) == INSTANCE SessionRefresh WITH
  Requests <- IF OneTab THEN {r1} ELSE SessionTabs,
  MaxPairs <- IF OneTab THEN MaxSessionPairs ELSE MaxTabPairs,
  MaxExpiries <- IF OneTab THEN MaxSessionExpiries ELSE MaxTabExpiries, Losses <- ~OneTab,
  jar <- sessionJar, alive <- sessionAlive, used <- sessionUsed,
  pairs <- sessionPairs, expiries <- sessionExpiries, page <- sessionPage,
  req <- sessionReq, lost <- sessionLost

ASSUME OfficeAssumption ==
  /\ Invite!TeamInvitationAssumption
  /\ \A b \in BOOLEAN :
       /\ Invoices(b)!InvoiceAssumption /\ Quotes(b)!QuoteBookAssumption /\ Contract(b)!ContractSigningAssumption
       /\ \A doc \in BOOLEAN : Money(b, doc)!BookingMoneyAssumption
       /\ Session(b)!SessionRefreshAssumption
       /\ Team(b)!TeamRolesAssumption /\ Discount(b)!DiscountAssumption

-----------------------------------------------------------------------------
Init ==
  /\ under \in {"invoices", "invoices, due", "quotes", "quotes, one edit at a time", "contract",
               "contract, by staff", "discount", "discount, nobody edits", "discount, three", "money", "money, every form",
               "money, as documented",
               "team", "team, two at once", "invitations", "session", "session, one tab"}
  /\ IF under = "invoices" THEN Invoices(FALSE)!Init ELSE Invoices(TRUE)!Init
  /\ Invite!Init
  /\ IF under = "discount, three" THEN Discount(TRUE)!Init ELSE Discount(FALSE)!Init
  /\ IF under = "team, two at once" THEN Team(FALSE)!Init ELSE Team(TRUE)!Init
  /\ IF under = "quotes" THEN Quotes(FALSE)!Init ELSE Quotes(TRUE)!Init
  /\ IF under = "contract" THEN Contract(FALSE)!Init ELSE Contract(TRUE)!Init
  /\ IF under = "money, every form" THEN Money(TRUE, FALSE)!Init
     ELSE IF under = "money, as documented" THEN Money(FALSE, TRUE)!Init ELSE Money(FALSE, FALSE)!Init
  /\ IF under = "session" THEN Session(FALSE)!Init ELSE Session(TRUE)!Init
  /\ under \notin {"contract", "contract, by staff"} => contractRequired = [CLIENT |-> 1, COMPANY_REP |-> 0]
  /\ under \notin {"money", "money, every form", "money, as documented"} => moneyService.policy = Half

Turn(name, action, others) == under = name /\ action /\ UNCHANGED <<under, others>>

NotInvoice  == <<quoteVars, contractVars, discountVars, moneyVars,
                 teamVars, inviteVars, sessionVars>>
NotQuote    == <<invoiceVars, contractVars, discountVars, moneyVars,
                 teamVars, inviteVars, sessionVars>>
NotContract == <<invoiceVars, quoteVars, discountVars, moneyVars, teamVars,
                 inviteVars, sessionVars>>
NotDiscount == <<invoiceVars, quoteVars, contractVars, moneyVars, teamVars,
                 inviteVars, sessionVars>>
NotMoney    == <<invoiceVars, quoteVars, contractVars, discountVars,
                 teamVars, inviteVars, sessionVars>>
NotTeam     == <<invoiceVars, quoteVars, contractVars, discountVars,
                 moneyVars, inviteVars, sessionVars>>
NotInvite   == <<invoiceVars, quoteVars, contractVars, discountVars,
                 moneyVars, teamVars, sessionVars>>
NotSession  == <<invoiceVars, quoteVars, contractVars, discountVars,
                 moneyVars, teamVars, inviteVars>>

Next ==
  \/ Turn("invoices", Invoices(FALSE)!Next, NotInvoice)
  \/ Turn("invoices, due", Invoices(TRUE)!Next, NotInvoice)
  \/ Turn("quotes", Quotes(FALSE)!Next, NotQuote)
  \/ Turn("quotes, one edit at a time", Quotes(TRUE)!Next, NotQuote)
  \/ Turn("contract", Contract(FALSE)!Next, NotContract)
  \/ Turn("contract, by staff", Contract(TRUE)!Next, NotContract)
  \/ Turn("discount", Discount(FALSE)!Next, NotDiscount)
  \/ Turn("discount, nobody edits", Discount(FALSE)!Creates \/ Discount(FALSE)!Uses, NotDiscount)
  \/ Turn("discount, three", Discount(TRUE)!Creates \/ Discount(TRUE)!Edits, NotDiscount)
  \/ Turn("money", Money(FALSE, FALSE)!Next, NotMoney)
  \/ Turn("money, as documented", Money(FALSE, TRUE)!Next, NotMoney)
  \/ Turn("money, every form", Money(TRUE, FALSE)!Next, NotMoney)
  \/ Turn("team", Team(TRUE)!Next, NotTeam)
  \/ Turn("team, two at once", Team(FALSE)!Next, NotTeam)
  \/ Turn("invitations", Invite!Next, NotInvite)
  \/ Turn("session", Session(FALSE)!Next, NotSession)
  \/ Turn("session, one tab", Session(TRUE)!Next, NotSession)

Spec == Init /\ [][Next]_vars

-----------------------------------------------------------------------------
(* However many confirmations are handled at once, and whatever the deadline *)
(* job does, the invoices of the month are numbered 1, 2, 3, ... without a   *)
(* gap and without a number used twice (InvoicesService.createForBooking).   *)
NumbersAreSequential ==
  /\ Invoices(FALSE)!NumbersAreSequential
  /\ under = "invoices" => Invoices(FALSE)!TypeOK
  /\ under = "invoices, due" => Invoices(TRUE)!TypeOK

(* However edits interleave, a quote's versions are consecutive; and, one    *)
(* edit at a time, the next one that writes a total leaves the right one,    *)
(* whatever an edit that died has left, and none touches a quote that was    *)
(* sent (QuotesService).                                                     *)
QuotesAreKept ==
  /\ [](under = "quotes" => Quotes(FALSE)!TypeOK /\ Quotes(FALSE)!VersionsAreConsecutive)
  /\ [][under = "quotes, one edit at a time" => Quotes(TRUE)!Repairs /\ Quotes(TRUE)!Frozen]_vars

(* A contract that is signed has the signatures its template requires, and   *)
(* one that waits lacks one, however sending, signing, voiding and amending  *)
(* interleave among staff; at the portal the client signs once.              *)
ContractsAreSigned ==
  /\ under = "contract, by staff" =>
       Contract(TRUE)!TypeOK /\ Contract(TRUE)!SignedMeetsRequirements /\ Contract(TRUE)!WaitsForMissing
  /\ under = "contract" => Contract(FALSE)!TypeOK /\ Contract(FALSE)!ClientSignsOnce

(* Every redemption of a code is counted, also of requests that overlap      *)
(* while nobody edits the discount, its limit is exceeded by no more than    *)
(* the requests there are beside one; and rows of one code are no more than  *)
(* the requests that wrote them at once (DiscountsService).                  *)
UsesAreCounted ==
  /\ under = "discount, three" => Discount(TRUE)!TypeOK /\ Discount(TRUE)!CodesBounded
  /\ under # "discount, three" => Discount(FALSE)!TypeOK /\ Discount(FALSE)!UsesCounted
  /\ under = "discount, nobody edits" => Discount(FALSE)!OverrunBounded

(* Whatever staff enter, no payment is more than the booking, what is        *)
(* returned is within the payment, later cancellations return no more, and a *)
(* charge leaves the business something.                                     *)
MoneyAddsUp ==
  /\ under = "money" => Money(FALSE, FALSE)!TypeOK /\ Money(FALSE, FALSE)!RefundWithin
  /\ under = "money, as documented" => Money(FALSE, TRUE)!TypeOK /\ Money(FALSE, TRUE)!RefundWithin
  /\ under = "money, every form" =>
       /\ Money(TRUE, FALSE)!TypeOK /\ Money(TRUE, FALSE)!RefundWithin /\ Money(TRUE, FALSE)!ChargeWithinTotal
       /\ Money(TRUE, FALSE)!RefundFalls /\ Money(TRUE, FALSE)!PayoutPositive

(* One request at a time, a tenant always has an owner and no cached role    *)
(* outlives the role; an address has one pending invitation, also after one  *)
(* has expired or a request has died, and if none has died, who can accept   *)
(* it is no member yet (TeamService, TenantRolesGuard).                      *)
TeamIsKept ==
  /\ under = "team" => Team(TRUE)!TypeOK /\ Team(TRUE)!AlwaysAnOwner /\ Team(TRUE)!CacheAgrees
  /\ under = "team, two at once" => Team(FALSE)!TypeOK
  /\ Invite!TypeOK /\ Invite!OnePending /\ (inviteDeaths = 0 => Invite!PendingIsNoMember)

(* One tab is sent to the login page only with a refresh token that cannot   *)
(* be exchanged; and if no answer is lost, the cookies that two tabs at once *)
(* leave can be exchanged (AuthService.refreshTokens, the middleware).       *)
StaysSignedIn ==
  /\ under = "session, one tab" => Session(TRUE)!TypeOK /\ Session(TRUE)!StaysSignedIn
  /\ under = "session" => Session(FALSE)!TypeOK /\ Session(FALSE)!JarIsUsable
=============================================================================
